---- MODULE Spec2Model ----
(***************************************************************************)
(* State-management core of the study planner: the UserStateDO durable     *)
(* object (goals, topics, study sessions, daily plans) and the operations  *)
(* that mutate its single persisted UserState value.                       *)
(*                                                                         *)
(* Representation.                                                         *)
(*   - An id string is an integer.  generateId() yields a fresh positive   *)
(*     integer; the string obtained by surrounding id n with whitespace is *)
(*     -n, so that String.trim maps -n to n and leaves n alone.            *)
(*   - An ISO timestamp is a number of ticks; its calendar day (the text   *)
(*     before the 'T') is ticks \div TicksPerDay.  A plan date is a day.   *)
(*   - null / an absent payload field is the empty sequence <<>>, a        *)
(*     present value v is <<v>>.                                           *)
(*   - Opaque text that the operations only carry along (notes, task       *)
(*     reasoning, task type, estimatedMinutes) is left out of the records. *)
(***************************************************************************)
EXTENDS Integers, Sequences, FiniteSets, TLC

\* ---------------------------------------------------------------- bounds
MaxId == 6          \* ids generateId() hands out in one behaviour
MaxTime == 2        \* last tick of the clock
TicksPerDay == 2    \* ticks per calendar day
MaxTopics == 1      \* topics supplied with one addGoal payload
MaxTasks == 2       \* tasks supplied with one generateDailyPlan call
MaxReviewCount == 32 \* largest reviewCount drawn for the mastery policy
MaxSteps == 5       \* steps (operations, clock ticks) of one behaviour
NumRequests == 2    \* overlapping requests to one durable object
MaxDaysAgo == 5     \* days back to which a topic may have been reviewed

MaxDaysToDeadline == 62   \* deadlines scored lie up to this many days ahead
MaxDaysSinceReview == 46  \* reviews classified lie up to this many days back
MaxCount == 6             \* review counts classified are 0..MaxCount

MaxDueDays == 11          \* the clock of the due checks runs this many days

MaxAttempts == 3          \* planner: maxAttempts
MaxFallback == 4          \* planner: topicsNeedingReview.slice(0, 4)
MaxModelTasks == 2        \* tasks in one reply of the model

MaxTurns == 10            \* memory: updated.slice(-10)
MaxChatSteps == 12        \* steps of the chat requests

VARIABLES
    storage,   \* the durable object's storage key "userState": <<>> or <<UserState>>
    nextId,    \* the next id generateId() returns
    now,       \* the clock (new Date())
    last,      \* the operation that ran last, its arguments and its outcome
    prev,      \* storage as it was when that operation started
    steps,     \* the number of steps taken so far
    requests   \* the fetch() calls in flight on the object, each with its position

vars == <<storage, nextId, now, last, prev, steps, requests>>

\* --------------------------------------------------------------- helpers
Null == <<>>

Some(v) == <<v>>

OrElse(opt, d) == IF opt = <<>> THEN d ELSE opt[1]

\* Array.prototype.findIndex / find over the positions that pass the test:
\* the first of them, 1-based; 0 when nothing matches (-1 in the code)
First(hits) ==
    IF hits = {} THEN 0 ELSE CHOOSE i \in hits : \A j \in hits : i <= j

\* the position of the first goal with this id
GoalIndex(state, goalId) ==
    First({i \in 1..Len(state.goals) : state.goals[i].id = goalId})

\* the position of the first topic with this id among a goal's topics
TopicIndex(topics, topicId) ==
    First({j \in 1..Len(topics) : topics[j].id = topicId})

\* Array.prototype.splice(i, 1)
RemoveAt(s, i) == SubSeq(s, 1, i - 1) \o SubSeq(s, i + 1, Len(s))

SeqsUpTo(S, n) == UNION {[1..k -> S] : k \in 0..n}

Min(a, b) == IF a <= b THEN a ELSE b

Max(a, b) == IF a >= b THEN a ELSE b

\* String.prototype.trim on an id string
Trim(id) == IF id < 0 THEN -id ELSE id

\* sessionData.date.split('T')[0]
DayOf(ts) == ts \div TicksPerDay

UserKey == "u1"

\* ------------------------------------------------------------ state store
DefaultState ==
    [userId |-> UserKey, goals |-> <<>>, sessions |-> <<>>,
     dailyPlans |-> <<>>, lastPlanGenerated |-> Null]

\* getState(): the stored value, or the default state when nothing is stored
GetState(stg) == IF stg # <<>> THEN stg[1] ELSE DefaultState

\* getState() as it would be if it saved the default state on every call
AfterGetStateCleared(stg) == <<DefaultState>>

\* what storage holds once getState() has returned and nothing else was put:
\* a first access persists the default state
AfterGetState(stg) == <<GetState(stg)>>

\* setState(userState)
SetState(userState) == <<userState>>

\* ------------------------------------------------------- mastery policy
BaseIncrease(reviewCount) ==
    IF reviewCount = 1 THEN 20
    ELSE IF reviewCount = 2 THEN 18
    ELSE IF reviewCount <= 5 THEN 12 + (5 - reviewCount)
    ELSE IF reviewCount <= 10 THEN 8 + (((10 - reviewCount) * 6) \div 10)
    ELSE IF reviewCount <= 20 THEN 5 + (((20 - reviewCount) * 2) \div 10)
    ELSE Max(3, 3 + (((IF reviewCount <= 30 THEN 30 - reviewCount ELSE 0) * 2) \div 10))

DurationBonus(durationMinutes) ==
    IF durationMinutes >= 90 THEN 8
    ELSE IF durationMinutes >= 60 THEN 5
    ELSE IF durationMinutes >= 45 THEN 3
    ELSE IF durationMinutes >= 30 THEN 1
    ELSE 0

\* Math.floor(masteryIncrease * 0.2 | 0.4 | 0.6 | 0.8) by the pre-update level
DiminishingReturns(masteryLevel, masteryIncrease) ==
    IF masteryLevel >= 95 THEN (masteryIncrease * 2) \div 10
    ELSE IF masteryLevel >= 85 THEN (masteryIncrease * 4) \div 10
    ELSE IF masteryLevel >= 70 THEN (masteryIncrease * 6) \div 10
    ELSE IF masteryLevel >= 50 THEN (masteryIncrease * 8) \div 10
    ELSE masteryIncrease

\* the stored masteryLevel as it would be without the minimum progress of 1
NewMasteryLevelNoMinimum(masteryLevel, reviewCount, durationMinutes) ==
    Min(100, masteryLevel
             + DiminishingReturns(masteryLevel,
                   BaseIncrease(reviewCount) + DurationBonus(durationMinutes)))

\* the masteryLevel recordSession stores; reviewCount is the incremented count
NewMasteryLevel(masteryLevel, reviewCount, durationMinutes) ==
    Min(100, masteryLevel
             + Max(1, DiminishingReturns(masteryLevel,
                          BaseIncrease(reviewCount) + DurationBonus(durationMinutes))))

\* ------------------------------------------------------------- operations
\* Each operation is the body of the method between its getState() and its
\* setState(): it takes the loaded state and returns the state to persist
\* (st), ok = FALSE with the thrown error when the method throws before
\* setState(), and what the method returns.

\* addGoal: the Topic objects built from the payload's topics
NewTopics(goalData, goalId, firstId) ==
    [i \in 1..Len(goalData.topics) |->
        [id           |-> firstId + i - 1,
         goalId       |-> goalId,
         name         |-> OrElse(goalData.topics[i].name, ""),
         lastReviewed |-> goalData.topics[i].lastReviewed,
         reviewCount  |-> OrElse(goalData.topics[i].reviewCount, 0),
         masteryLevel |-> OrElse(goalData.topics[i].masteryLevel, 0)]]

\* addGoal: !title || !type || !deadline || priority === undefined
MissingRequired(goalData) ==
    \/ goalData.title = <<>> \/ goalData.title = <<"">>
    \/ goalData.type = <<>> \/ goalData.type = <<"">>
    \/ goalData.deadline = <<>>
    \/ goalData.priority = <<>>

\* addGoal as it would be if it stored the new goal in place of the others
AddGoalOpOverwriting(state, goalData, id0, clock) ==
    IF MissingRequired(goalData)
    THEN [ok |-> FALSE, error |-> "MissingRequiredFields", st |-> state]
    ELSE [ok |-> TRUE, error |-> "",
          st |-> [state EXCEPT !.goals =
                    <<[id        |-> id0,
                       title     |-> goalData.title[1],
                       type      |-> goalData.type[1],
                       deadline  |-> goalData.deadline[1],
                       priority  |-> goalData.priority[1],
                       status    |-> OrElse(goalData.status, "active"),
                       createdAt |-> clock,
                       topics    |-> NewTopics(goalData, id0, id0 + 1)]>>]]

\* addGoal(goalData); id0 is the first id generateId() returns, clock = new Date()
AddGoalOp(state, goalData, id0, clock) ==
    IF MissingRequired(goalData)
    THEN [ok |-> FALSE, error |-> "MissingRequiredFields", st |-> state]
    ELSE LET newGoal ==
                 [id        |-> id0,
                  title     |-> goalData.title[1],
                  type      |-> goalData.type[1],
                  deadline  |-> goalData.deadline[1],
                  priority  |-> goalData.priority[1],
                  status    |-> OrElse(goalData.status, "active"),
                  createdAt |-> clock,
                  topics    |-> NewTopics(goalData, id0, id0 + 1)]
         IN  [ok |-> TRUE, error |-> "",
              st |-> [state EXCEPT !.goals = Append(@, newGoal)]]

\* the merge as it would be if the payload's id and createdAt were taken
MergeGoalTakingAll(goal, updates) ==
    [id        |-> OrElse(updates.id, goal.id),
     title     |-> OrElse(updates.title, goal.title),
     type      |-> OrElse(updates.type, goal.type),
     deadline  |-> OrElse(updates.deadline, goal.deadline),
     priority  |-> OrElse(updates.priority, goal.priority),
     status    |-> OrElse(updates.status, goal.status),
     createdAt |-> OrElse(updates.createdAt, goal.createdAt),
     topics    |-> OrElse(updates.topics, goal.topics)]

\* updateGoal: {...goal, ...updates, id: goal.id, createdAt: goal.createdAt}
MergeGoal(goal, updates) ==
    [id        |-> goal.id,
     title     |-> OrElse(updates.title, goal.title),
     type      |-> OrElse(updates.type, goal.type),
     deadline  |-> OrElse(updates.deadline, goal.deadline),
     priority  |-> OrElse(updates.priority, goal.priority),
     status    |-> OrElse(updates.status, goal.status),
     createdAt |-> goal.createdAt,
     topics    |-> OrElse(updates.topics, goal.topics)]

UpdateGoalOp(state, goalId, updates) ==
    LET goalIndex == GoalIndex(state, goalId)
    IN  IF goalIndex = 0
        THEN [ok |-> FALSE, error |-> "GoalNotFound", st |-> state]
        ELSE [ok |-> TRUE, error |-> "",
              st |-> [state EXCEPT !.goals[goalIndex] = MergeGoal(@, updates)]]

\* deleteGoal: the findIndex predicate
DeleteMatches(g, goalId) ==
    g.id = Trim(goalId) \/ g.id = goalId \/ Trim(g.id) = Trim(goalId)

\* deleteGoal: the filter that keeps a session or a task (an entry with a goalId)
KeptByDelete(entry, goalId) ==
    entry.goalId # Trim(goalId) /\ entry.goalId # goalId

\* deleteGoal as it would be without the cascade into the daily plans
DeleteGoalOpLeavingPlans(state, goalId) ==
    LET goalIndex ==
            First({i \in 1..Len(state.goals) : DeleteMatches(state.goals[i], goalId)})
    IN  IF goalIndex = 0
        THEN [ok |-> FALSE, error |-> "GoalNotFound", st |-> state]
        ELSE [ok |-> TRUE, error |-> "",
              st |-> [state EXCEPT
                        !.goals = RemoveAt(@, goalIndex),
                        !.sessions = SelectSeq(@, LAMBDA s : KeptByDelete(s, goalId))]]

\* deleteGoal as it would be if it dropped every session
DeleteGoalOpDroppingSessions(state, goalId) ==
    LET goalIndex ==
            First({i \in 1..Len(state.goals) : DeleteMatches(state.goals[i], goalId)})
    IN  IF goalIndex = 0
        THEN [ok |-> FALSE, error |-> "GoalNotFound", st |-> state]
        ELSE [ok |-> TRUE, error |-> "",
              st |-> [state EXCEPT
                        !.goals = RemoveAt(@, goalIndex),
                        !.sessions = <<>>,
                        !.dailyPlans = [i \in 1..Len(@) |->
                            [@[i] EXCEPT !.tasks =
                                SelectSeq(@, LAMBDA task : KeptByDelete(task, goalId))]]]]

\* deleteGoal(goalId)
DeleteGoalOp(state, goalId) ==
    LET goalIndex ==
            First({i \in 1..Len(state.goals) : DeleteMatches(state.goals[i], goalId)})
    IN  IF goalIndex = 0
        THEN [ok |-> FALSE, error |-> "GoalNotFound", st |-> state]
        ELSE [ok |-> TRUE, error |-> "",
              st |-> [state EXCEPT
                        !.goals = RemoveAt(@, goalIndex),
                        !.sessions = SelectSeq(@, LAMBDA s : KeptByDelete(s, goalId)),
                        !.dailyPlans = [i \in 1..Len(@) |->
                            [@[i] EXCEPT !.tasks =
                                SelectSeq(@, LAMBDA task : KeptByDelete(task, goalId))]]]]

\* addTopic as it would be if the new topic took the place of the goal's topics
AddTopicOpReplacing(state, goalId, topicData, id0) ==
    IF GoalIndex(state, goalId) = 0
    THEN [ok |-> FALSE, error |-> "GoalNotFound", st |-> state]
    ELSE [ok |-> TRUE, error |-> "",
          st |-> [state EXCEPT !.goals[GoalIndex(state, goalId)].topics =
                    <<[id           |-> id0,
                       goalId       |-> goalId,
                       name         |-> topicData.name,
                       lastReviewed |-> topicData.lastReviewed,
                       reviewCount  |-> topicData.reviewCount,
                       masteryLevel |-> topicData.masteryLevel]>>]]

\* addTopic(goalId, topicData): {...topicData, id: generateId(), goalId}
AddTopicOp(state, goalId, topicData, id0) ==
    LET goalIndex == GoalIndex(state, goalId)
        newTopic ==
            [id           |-> id0,
             goalId       |-> goalId,
             name         |-> topicData.name,
             lastReviewed |-> topicData.lastReviewed,
             reviewCount  |-> topicData.reviewCount,
             masteryLevel |-> topicData.masteryLevel]
    IN  IF goalIndex = 0
        THEN [ok |-> FALSE, error |-> "GoalNotFound", st |-> state]
        ELSE [ok |-> TRUE, error |-> "",
              st |-> [state EXCEPT !.goals[goalIndex].topics = Append(@, newTopic)]]

\* the validation as it would be if the topic were looked up in every goal
SessionErrorTopicAnywhere(state, sessionData) ==
    IF GoalIndex(state, sessionData.goalId) = 0 THEN "GoalNotFound"
    ELSE IF \A i \in 1..Len(state.goals) :
                TopicIndex(state.goals[i].topics, sessionData.topicId) = 0
    THEN "TopicNotFound"
    ELSE ""

\* recordSession: the error its validation throws, "" if none
SessionError(state, sessionData) ==
    IF GoalIndex(state, sessionData.goalId) = 0 THEN "GoalNotFound"
    ELSE IF TopicIndex(state.goals[GoalIndex(state, sessionData.goalId)].topics,
                       sessionData.topicId) = 0
    THEN "TopicNotFound"
    ELSE ""

\* the topic update as it would be if the base increase were chosen by the
\* reviewCount before the increment
ReviewedTopicOldCount(topic, sessionData) ==
    [topic EXCEPT
        !.lastReviewed = Some(sessionData.date),
        !.reviewCount  = @ + 1,
        !.masteryLevel = NewMasteryLevel(@, topic.reviewCount,
                                          sessionData.durationMinutes)]

\* the topic update as it would be if lastReviewed were left alone
ReviewedTopicKeepingDate(topic, sessionData) ==
    [topic EXCEPT
        !.reviewCount  = @ + 1,
        !.masteryLevel = NewMasteryLevel(@, topic.reviewCount + 1,
                                          sessionData.durationMinutes)]

\* recordSession: the topic after the session (lastReviewed, reviewCount, mastery)
ReviewedTopic(topic, sessionData) ==
    [topic EXCEPT
        !.lastReviewed = Some(sessionData.date),
        !.reviewCount  = @ + 1,
        !.masteryLevel = NewMasteryLevel(@, topic.reviewCount + 1,
                                          sessionData.durationMinutes)]

\* the retirement as it would be if it ignored the plan's date
RetireTasksAnyDate(plan, sessionData) ==
    [plan EXCEPT !.tasks = SelectSeq(@, LAMBDA task :
        ~(task.topicId = sessionData.topicId /\ task.goalId = sessionData.goalId))]

\* recordSession: a plan after the session's tasks were retired from it
RetireTasks(plan, sessionData) ==
    IF plan.date = DayOf(sessionData.date)
    THEN [plan EXCEPT !.tasks = SelectSeq(@, LAMBDA task :
              ~(task.topicId = sessionData.topicId /\ task.goalId = sessionData.goalId))]
    ELSE plan

\* recordSession as it would be if the new session took the place of the list
RecordSessionOpReplacingSessions(state, sessionData, id0) ==
    LET goalIndex == GoalIndex(state, sessionData.goalId)
        topicIndex ==
            IF goalIndex = 0 THEN 0
            ELSE TopicIndex(state.goals[goalIndex].topics, sessionData.topicId)
        newSession ==
            [id              |-> id0,
             topicId         |-> sessionData.topicId,
             goalId          |-> sessionData.goalId,
             date            |-> sessionData.date,
             durationMinutes |-> sessionData.durationMinutes]
        error == SessionError(state, sessionData)
    IN  IF error # ""
        THEN [ok |-> FALSE, error |-> error, st |-> state]
        ELSE [ok |-> TRUE, error |-> "",
              st |-> [state EXCEPT
                        !.sessions = <<newSession>>,
                        !.goals[goalIndex].topics[topicIndex] =
                            ReviewedTopic(@, sessionData),
                        !.dailyPlans = [i \in 1..Len(@) |->
                            RetireTasks(@[i], sessionData)]]]

\* recordSession(sessionData); id0 is the id generateId() returns
RecordSessionOp(state, sessionData, id0) ==
    LET goalIndex == GoalIndex(state, sessionData.goalId)
        topicIndex ==
            IF goalIndex = 0 THEN 0
            ELSE TopicIndex(state.goals[goalIndex].topics, sessionData.topicId)
        newSession ==
            [id              |-> id0,
             topicId         |-> sessionData.topicId,
             goalId          |-> sessionData.goalId,
             date            |-> sessionData.date,
             durationMinutes |-> sessionData.durationMinutes]
        error == SessionError(state, sessionData)
    IN  IF error # ""
        THEN [ok |-> FALSE, error |-> error, st |-> state]
        ELSE [ok |-> TRUE, error |-> "",
              st |-> [state EXCEPT
                        !.sessions = Append(@, newSession),
                        !.goals[goalIndex].topics[topicIndex] =
                            ReviewedTopic(@, sessionData),
                        !.dailyPlans = [i \in 1..Len(@) |->
                            RetireTasks(@[i], sessionData)]]]

\* the validation as it would be if it looked the goal up and not the topic
TaskErrorGoalOnly(state, task) ==
    IF GoalIndex(state, task.goalId) = 0 THEN "GoalNotFound" ELSE ""

\* the validation as it would be if it only looked for the topic in any goal
TaskErrorTopicAnywhere(state, task) ==
    IF \A i \in 1..Len(state.goals) :
           TopicIndex(state.goals[i].topics, task.topicId) = 0
    THEN "TopicNotFound"
    ELSE ""

\* generateDailyPlan: the error the validation loop throws for one task, "" if none
TaskError(state, task) ==
    LET goalIndex == GoalIndex(state, task.goalId)
    IN  IF goalIndex = 0 THEN "GoalNotFound"
        ELSE IF TopicIndex(state.goals[goalIndex].topics, task.topicId) = 0
        THEN "TopicNotFound"
        ELSE ""

\* generateDailyPlan: the position of the first task the loop rejects, 0 if none
FirstBadTask(state, tasks) ==
    First({i \in 1..Len(tasks) : TaskError(state, tasks[i]) # ""})

\* the installation as it would be without removing the date's earlier plan
InstallPlanAppending(dailyPlans, newPlan) == Append(dailyPlans, newPlan)

\* generateDailyPlan: the plan list with the new plan installed
InstallPlan(dailyPlans, newPlan) ==
    Append(SelectSeq(dailyPlans, LAMBDA p : p.date # newPlan.date), newPlan)

\* generateDailyPlan(date, aiReasoning, tasks); clock = new Date()
GenerateDailyPlanOp(state, date, aiReasoning, tasks, clock) ==
    LET bad == FirstBadTask(state, tasks)
        newPlan ==
            [date |-> date, generatedAt |-> clock, tasks |-> tasks,
             reasoning |-> aiReasoning]
    IN  IF bad # 0
        THEN [ok |-> FALSE, error |-> TaskError(state, tasks[bad]), st |-> state]
        ELSE [ok |-> TRUE, error |-> "",
              st |-> [state EXCEPT
                        !.dailyPlans = InstallPlan(@, newPlan),
                        !.lastPlanGenerated = Some(clock)]]

\* the removal as it would be if it dropped every plan
DeleteDailyPlanOpClearing(state, date) ==
    [ok |-> TRUE, error |-> "", st |-> [state EXCEPT !.dailyPlans = <<>>]]

\* deleteDailyPlan(date)
DeleteDailyPlanOp(state, date) ==
    [ok |-> TRUE, error |-> "",
     st |-> [state EXCEPT !.dailyPlans = SelectSeq(@, LAMBDA p : p.date # date)]]

\* ------------------------------------------------- decay and scheduling
\* intervals[Math.min(reviewCount, intervals.length - 1)] || 30, in days
SpacedRepetitionInterval(reviewCount) ==
    IF reviewCount < 0 THEN 30
    ELSE <<1, 3, 7, 14, 30>>[Min(reviewCount, 4) + 1]

\* Math.floor of a span of ticks in days
DaysBetween(from, to) == (to - from) \div TicksPerDay

\* the decay level as it would be with the half interval cut to whole days
CalculateMemoryDecayLevelWholeHalves(lastReviewed, reviewCount, clock) ==
    IF lastReviewed = Null THEN "red"
    ELSE LET daysSinceReview == DaysBetween(lastReviewed[1], clock)
             interval == SpacedRepetitionInterval(reviewCount)
         IN  IF daysSinceReview < interval \div 2 THEN "green"
             ELSE IF daysSinceReview < interval THEN "yellow"
             ELSE IF daysSinceReview < interval + interval \div 2 THEN "orange"
             ELSE "red"

\* the decay level as it would be if yellow lasted through the interval's day
CalculateMemoryDecayLevelLongYellow(lastReviewed, reviewCount, clock) ==
    IF lastReviewed = Null THEN "red"
    ELSE LET daysSinceReview == DaysBetween(lastReviewed[1], clock)
             interval == SpacedRepetitionInterval(reviewCount)
         IN  IF 2 * daysSinceReview < interval THEN "green"
             ELSE IF daysSinceReview <= interval THEN "yellow"
             ELSE IF 2 * daysSinceReview < 3 * interval THEN "orange"
             ELSE "red"

\* calculateMemoryDecayLevel(lastReviewed, reviewCount) at time clock; the
\* comparisons with interval * 0.5 and interval * 1.5 are taken doubled
CalculateMemoryDecayLevel(lastReviewed, reviewCount, clock) ==
    IF lastReviewed = Null THEN "red"
    ELSE LET daysSinceReview == DaysBetween(lastReviewed[1], clock)
             interval == SpacedRepetitionInterval(reviewCount)
         IN  IF 2 * daysSinceReview < interval THEN "green"
             ELSE IF daysSinceReview < interval THEN "yellow"
             ELSE IF 2 * daysSinceReview < 3 * interval THEN "orange"
             ELSE "red"

\* the urgency score as it would be without the step at 14 days
GetUrgencyScoreSkippingStep(deadline, priority, clock) ==
    LET daysUntilDeadline == DaysBetween(clock, deadline)
        timeScore ==
            IF daysUntilDeadline < 0 THEN 50
            ELSE IF daysUntilDeadline <= 7 THEN 50
            ELSE IF daysUntilDeadline <= 30 THEN 30
            ELSE IF daysUntilDeadline <= 60 THEN 20
            ELSE 10
    IN  Min(100, priority * 10 + timeScore)

\* getUrgencyScore(deadline, priority) at time clock, for integer priorities:
\* Math.round((priority / 5) * 50 + timeScore) is priority * 10 + timeScore
GetUrgencyScore(deadline, priority, clock) ==
    LET daysUntilDeadline == DaysBetween(clock, deadline)
        timeScore ==
            IF daysUntilDeadline < 0 THEN 50
            ELSE IF daysUntilDeadline <= 7 THEN 50
            ELSE IF daysUntilDeadline <= 14 THEN 40
            ELSE IF daysUntilDeadline <= 30 THEN 30
            ELSE IF daysUntilDeadline <= 60 THEN 20
            ELSE 10
    IN  Min(100, priority * 10 + timeScore)

\* isTopicDueForReview(lastReviewed, reviewCount) at time clock: never
\* reviewed, or the interval has passed since lastReviewed
IsTopicDueForReview(lastReviewed, reviewCount, clock) ==
    \/ lastReviewed = Null
    \/ clock >= lastReviewed[1] + SpacedRepetitionInterval(reviewCount) * TicksPerDay

\* the planner's filter as it would be with the first interval for every count
PlannerNeedsReviewFirstInterval(topic, clock) ==
    \/ topic.lastReviewed = Null
    \/ DaysBetween(topic.lastReviewed[1], clock) >= 1

\* planner.generateDailyPlan: the filter of topicsNeedingReview, at time clock
PlannerNeedsReview(topic, clock) ==
    \/ topic.lastReviewed = Null
    \/ DaysBetween(topic.lastReviewed[1], clock)
           >= SpacedRepetitionInterval(topic.reviewCount)

\* planner.generateDailyPlan: activeGoals
ActiveGoals(userState) ==
    SelectSeq(userState.goals, LAMBDA g : g.status = "active")

\* planner.generateDailyPlan: allTopics, the topics of the active goals in order
RECURSIVE AllTopicsFrom(_, _)
AllTopicsFrom(activeGoals, goalIndex) ==
    IF goalIndex > Len(activeGoals) THEN <<>>
    ELSE activeGoals[goalIndex].topics \o AllTopicsFrom(activeGoals, goalIndex + 1)

\* planner.generateDailyPlan: topicsNeedingReview, at time clock
PlannerTopicsNeedingReview(userState, clock) ==
    SelectSeq(AllTopicsFrom(ActiveGoals(userState), 1),
              LAMBDA topic : PlannerNeedsReview(topic, clock))

\* utils/memory getNextReviewDate: lastReviewed moved on by the interval, or null
GetNextReviewDate(lastReviewed, reviewCount) ==
    IF lastReviewed = Null THEN Null
    ELSE Some(lastReviewed[1] + SpacedRepetitionInterval(reviewCount) * TicksPerDay)

\* utils/memory isDueForReview(topic), at time clock
IsDueForReview(topic, clock) ==
    IF topic.lastReviewed = Null THEN TRUE
    ELSE LET nextReview == GetNextReviewDate(topic.lastReviewed, topic.reviewCount)
         IN  IF nextReview = Null THEN TRUE ELSE clock >= nextReview[1]

\* planner validateTask: the fields are in range and both ids are known
ValidateTask(task, validTopicIds, validGoalIds) ==
    /\ task.type \in {"study", "review", "project_work"}
    /\ task.estimatedMinutes >= 15
    /\ task.estimatedMinutes <= 180
    /\ task.priority >= 1
    /\ task.priority <= 5
    /\ task.topicId \in validTopicIds
    /\ task.goalId \in validGoalIds

\* planner: validTopicIds, the topic ids of the active goals
ValidTopicIds(activeGoals) ==
    {AllTopicsFrom(activeGoals, 1)[i].id : i \in 1..Len(AllTopicsFrom(activeGoals, 1))}

\* planner: validGoalIds, the ids of the active goals
ValidGoalIds(activeGoals) == {activeGoals[i].id : i \in 1..Len(activeGoals)}

\* planner: what one attempt leaves in aiResult. A reply is a record with
\* kind "throws" (ai.run rejects), "text" (no JSON with a tasks array) or
\* "tasks" (a parsed tasks array and a reasoning)
AttemptResult(reply, activeGoals) ==
    IF reply.kind # "tasks" THEN Null
    ELSE LET validTasks ==
                 SelectSeq(reply.tasks, LAMBDA task :
                     ValidateTask(task, ValidTopicIds(activeGoals),
                                  ValidGoalIds(activeGoals)))
         IN  IF Len(validTasks) > 0
             THEN Some([reasoning |-> reply.reasoning, tasks |-> validTasks])
             ELSE Null

\* the retry loop as it would be if it always made every call
RunAttemptsExhausting(replies, attempts, activeGoals) ==
    LET usable == {k \in (attempts + 1)..MaxAttempts :
                      AttemptResult(replies[k], activeGoals) # Null}
    IN  [aiResult |-> IF usable = {} THEN Null
                      ELSE AttemptResult(replies[First(usable)], activeGoals),
         attempts |-> MaxAttempts]

\* planner: the retry loop, while (attempts < maxAttempts && !aiResult),
\* entered with attempts calls made; replies[k] is what call k yields
RECURSIVE RunAttempts(_, _, _)
RunAttempts(replies, attempts, activeGoals) ==
    IF attempts >= MaxAttempts THEN [aiResult |-> Null, attempts |-> attempts]
    ELSE LET aiResult == AttemptResult(replies[attempts + 1], activeGoals)
         IN  IF aiResult # Null
             THEN [aiResult |-> aiResult, attempts |-> attempts + 1]
             ELSE RunAttempts(replies, attempts + 1, activeGoals)

\* planner: the goal the fallback finds for a topic, the first active goal
\* holding a topic of that id (0 if none)
FallbackGoalIndex(activeGoals, topic) ==
    First({i \in 1..Len(activeGoals) : TopicIndex(activeGoals[i].topics, topic.id) # 0})

\* planner: one fallback task; its reasoning text is kept as the phrase and
\* the days since the review
FallbackTask(activeGoals, topic, clock) ==
    [topicId |-> topic.id,
     goalId |-> activeGoals[FallbackGoalIndex(activeGoals, topic)].id,
     type |-> "review",
     estimatedMinutes |-> 45,
     priority |-> 4,
     reasoning |-> IF topic.lastReviewed = Null THEN <<"never reviewed">>
                   ELSE <<"last reviewed", DaysBetween(topic.lastReviewed[1], clock)>>]

\* the fallback as it would be without the slice
FallbackTasksUnsliced(activeGoals, topicsNeedingReview, clock) ==
    LET found == SelectSeq(topicsNeedingReview,
                     LAMBDA topic : FallbackGoalIndex(activeGoals, topic) # 0)
    IN  [i \in 1..Len(found) |-> FallbackTask(activeGoals, found[i], clock)]

\* planner: fallbackTasks, from the first four topics needing review
FallbackTasks(activeGoals, topicsNeedingReview, clock) ==
    LET sliced == SubSeq(topicsNeedingReview, 1,
                         Min(MaxFallback, Len(topicsNeedingReview)))
        found == SelectSeq(sliced,
                     LAMBDA topic : FallbackGoalIndex(activeGoals, topic) # 0)
    IN  [i \in 1..Len(found) |-> FallbackTask(activeGoals, found[i], clock)]

\* planner.generateDailyPlan(userState, targetDate, ai) at time clock, the
\* model answering call k with replies[k]
PlannerGenerateDailyPlan(userState, targetDate, replies, clock) ==
    LET activeGoals == ActiveGoals(userState)
        run == RunAttempts(replies, 0, activeGoals)
        fallbackTasks ==
            FallbackTasks(activeGoals, PlannerTopicsNeedingReview(userState, clock), clock)
    IN  IF Len(activeGoals) = 0
        THEN [ok |-> FALSE, error |-> "NoActiveGoals", attempts |-> 0, plan |-> Null]
        ELSE IF run.aiResult # Null
        THEN [ok |-> TRUE, error |-> "", attempts |-> run.attempts,
              plan |-> Some([date |-> targetDate, generatedAt |-> clock,
                             tasks |-> run.aiResult[1].tasks,
                             reasoning |-> run.aiResult[1].reasoning])]
        ELSE IF Len(fallbackTasks) = 0
        THEN [ok |-> FALSE, error |-> "NoValidTopics", attempts |-> run.attempts,
              plan |-> Null]
        ELSE [ok |-> TRUE, error |-> "", attempts |-> run.attempts,
              plan |-> Some([date |-> targetDate, generatedAt |-> clock,
                             tasks |-> fallbackTasks,
                             reasoning |-> "basic study plan"])]

\* urgencyMap
UrgencyMap(decayLevel) ==
    CASE decayLevel = "red" -> 4
      [] decayLevel = "orange" -> 3
      [] decayLevel = "yellow" -> 2
      [] decayLevel = "green" -> 1

\* the urgency as it would be with the decay level weighted by 4, not 20
UrgencyTimes5LightDecay(goal, topic, clock) ==
    UrgencyMap(CalculateMemoryDecayLevel(topic.lastReviewed, topic.reviewCount, clock))
        * 20
    + GetUrgencyScore(goal.deadline, goal.priority, clock)

\* urgencyMap[decayLevel] * 20 + goalUrgency * 0.2, kept as five times its
\* value so that it stays an integer
UrgencyTimes5(goal, topic, clock) ==
    UrgencyMap(CalculateMemoryDecayLevel(topic.lastReviewed, topic.reviewCount, clock))
        * 100
    + GetUrgencyScore(goal.deadline, goal.priority, clock)

\* ----------------------------------------------------------------- queries
\* getTopicsNeedingReview: allTopics, the due topics of the active goals in
\* the order of the two loops, each with its urgency
RECURSIVE DueTopicsFrom(_, _, _)
DueTopicsFrom(state, goalIndex, clock) ==
    IF goalIndex > Len(state.goals) THEN <<>>
    ELSE LET goal == state.goals[goalIndex]
             due == SelectSeq(goal.topics, LAMBDA topic :
                        IsTopicDueForReview(topic.lastReviewed, topic.reviewCount, clock))
             entries == [j \in 1..Len(due) |->
                            [topic |-> due[j],
                             urgency |-> UrgencyTimes5(goal, due[j], clock)]]
         IN  (IF goal.status = "active" THEN entries ELSE <<>>)
                 \o DueTopicsFrom(state, goalIndex + 1, clock)

\* the place as it would be if the sort put the lowest urgency first
SortedPlaceAscending(entries, i) ==
    1 + Cardinality({j \in 1..Len(entries) :
            \/ entries[j].urgency < entries[i].urgency
            \/ entries[j].urgency = entries[i].urgency /\ j < i})

\* the place entry i takes in allTopics.sort((a, b) => b.urgency - a.urgency):
\* behind the entries of higher urgency and the earlier ones of equal urgency
SortedPlace(entries, i) ==
    1 + Cardinality({j \in 1..Len(entries) :
            \/ entries[j].urgency > entries[i].urgency
            \/ entries[j].urgency = entries[i].urgency /\ j < i})

\* the sort, followed by the map that strips the urgency
SortedTopics(entries) ==
    [place \in 1..Len(entries) |->
        entries[CHOOSE i \in 1..Len(entries) : SortedPlace(entries, i) = place].topic]

\* getTopicsNeedingReview() at time clock
GetTopicsNeedingReviewOp(state, clock) ==
    SortedTopics(DueTopicsFrom(state, 1, clock))

\* the review queue as it would be if it were evaluated at checkDate
GetTopicsNeedingReviewAtCheckDate(state, asOfDate, clock) ==
    LET checkDate == IF asOfDate # Null THEN asOfDate[1] ELSE clock
    IN  SortedTopics(DueTopicsFrom(state, 1, checkDate))

\* getTopicsNeedingReview(asOfDate) at time clock: checkDate is computed
\* from asOfDate and handed to none of the calls, which all take new Date()
GetTopicsNeedingReviewAsOf(state, asOfDate, clock) ==
    LET checkDate == IF asOfDate # Null THEN asOfDate[1] ELSE clock
    IN  SortedTopics(DueTopicsFrom(state, 1, clock))

\* getDailyPlan(date): the plan found, or null
GetDailyPlanOp(state, date) ==
    LET hits == {i \in 1..Len(state.dailyPlans) : state.dailyPlans[i].date = date}
    IN  IF hits = {} THEN Null ELSE Some(state.dailyPlans[First(hits)])

\* getGoalsWithDecay() at time clock: the decay level of each goal's topics
GetGoalsWithDecayOp(state, clock) ==
    [i \in 1..Len(state.goals) |->
        [goal |-> state.goals[i],
         topicsWithDecay |->
            [j \in 1..Len(state.goals[i].topics) |->
                CalculateMemoryDecayLevel(state.goals[i].topics[j].lastReviewed,
                                          state.goals[i].topics[j].reviewCount,
                                          clock)]]]

\* ------------------------------------------------------------------ inputs
Times == 0..MaxTime

Days == {DayOf(t) : t \in Times}

Durations == {90}

FreshTopicData ==
    [name |-> Some("Limits"), lastReviewed |-> Null, reviewCount |-> Null,
     masteryLevel |-> Null]

\* a topic payload that carries its own review state
TopicDataAt(masteryLevel, reviewCount) ==
    [name |-> Some("Limits"),
     lastReviewed |-> IF reviewCount = 0 THEN Null ELSE Some(0),
     reviewCount |-> Some(reviewCount), masteryLevel |-> Some(masteryLevel)]

MasteryLevels == 0..100

ReviewCounts == 0..MaxReviewCount

\* session lengths on both sides of every duration threshold
MasteryDurations == {0, 29, 30, 44, 45, 59, 60, 89, 90, 120}

TopicDataInputs == {FreshTopicData}

GoalData(title, priority, topics) ==
    [title |-> title, type |-> Some("exam"), deadline |-> Some(MaxTime),
     priority |-> priority, status |-> Null, topics |-> topics]

GoalDataInputs ==
    {GoalData(title, priority, topics) :
        title \in {Null, Some("Calc Final")},
        priority \in {Null, Some(5)},
        topics \in SeqsUpTo(TopicDataInputs, MaxTopics)}

NoUpdates ==
    [id |-> Null, title |-> Null, type |-> Null, deadline |-> Null,
     priority |-> Null, status |-> Null, createdAt |-> Null, topics |-> Null]

UpdatesInputs ==
    {[NoUpdates EXCEPT !.status = Some("completed"), !.id = Some(MaxId + 1),
                       !.createdAt = Some(MaxTime + 1), !.priority = Some(9)],
     [NoUpdates EXCEPT !.topics = Some(<<>>)]}

\* a payload that sends a goal's topics back with their masteryLevel cleared
ResetTopics(topics) ==
    [i \in 1..Len(topics) |-> [topics[i] EXCEPT !.masteryLevel = 0]]

\* the update payloads a caller may send for goalId: the fixed ones, and the
\* goal's own topics edited
UpdatesFor(state, goalId) ==
    UpdatesInputs \cup
        (IF GoalIndex(state, goalId) = 0 THEN {}
         ELSE {[NoUpdates EXCEPT !.topics =
                   Some(ResetTopics(state.goals[GoalIndex(state, goalId)].topics))]})

AddTopicInputs ==
    {[name |-> "Integrals", lastReviewed |-> Null, reviewCount |-> 0,
      masteryLevel |-> 0]}

Reasonings == {"r"}

GoalIds(state) == {state.goals[i].id : i \in 1..Len(state.goals)}

TopicIds(state) ==
    UNION {{state.goals[i].topics[j].id : j \in 1..Len(state.goals[i].topics)} :
               i \in 1..Len(state.goals)}

\* the ids a caller may name: those in the state, and one that names nothing
GoalIdInputs(state, fresh) == GoalIds(state) \cup {fresh}

TopicIdInputs(state, fresh) == TopicIds(state) \cup {fresh}

TaskInputs(state, fresh) ==
    [goalId : GoalIdInputs(state, fresh), topicId : TopicIdInputs(state, fresh)]

\* ----------------------------------------------------------------- actions
\* One action per method of the durable object, run from its getState() to
\* its return: a method that throws has persisted nothing but what getState()
\* itself persisted.
Persisted(stg, r) == IF r.ok THEN SetState(r.st) ELSE AfterGetState(stg)

\* a step is taken: the history variables record where it started
Invoked ==
    /\ steps' = steps + 1
    /\ prev' = storage
    /\ UNCHANGED requests

\* the requests that may be in flight on the object at once
Requests == 1..NumRequests

\* a request not yet delivered to the object
IdleRequest ==
    [pc |-> "idle", body |-> Null, state |-> Null, ok |-> FALSE, goalId |-> 0,
     overlapped |-> FALSE]

Init ==
    /\ storage = <<>>
    /\ nextId = 1
    /\ now = 0
    /\ last = [op |-> "init", ok |-> TRUE]
    /\ prev = <<>>
    /\ steps = 0
    /\ requests = [r \in Requests |-> IdleRequest]

AddGoal(goalData) ==
    /\ steps < MaxSteps
    /\ nextId + Len(goalData.topics) <= MaxId
    /\ LET r == AddGoalOp(GetState(storage), goalData, nextId, now)
       IN  /\ storage' = Persisted(storage, r)
           /\ nextId' = IF r.ok THEN nextId + 1 + Len(goalData.topics) ELSE nextId
           /\ last' = IF r.ok
                       THEN [op |-> "addGoal", ok |-> TRUE, error |-> "",
                             goalId |-> nextId, goalData |-> goalData]
                       ELSE [op |-> "addGoal", ok |-> FALSE, error |-> r.error,
                             goalId |-> nextId]
    /\ Invoked
    /\ UNCHANGED now

UpdateGoal(goalId, updates) ==
    /\ steps < MaxSteps
    /\ LET r == UpdateGoalOp(GetState(storage), goalId, updates)
       IN  /\ storage' = Persisted(storage, r)
           /\ last' = [op |-> "updateGoal", ok |-> r.ok, error |-> r.error,
                       goalId |-> goalId]
    /\ Invoked
    /\ UNCHANGED <<nextId, now>>

DeleteGoal(goalId) ==
    /\ steps < MaxSteps
    /\ LET r == DeleteGoalOp(GetState(storage), goalId)
       IN  /\ storage' = Persisted(storage, r)
           /\ last' = [op |-> "deleteGoal", ok |-> r.ok, error |-> r.error,
                       goalId |-> goalId]
    /\ Invoked
    /\ UNCHANGED <<nextId, now>>

AddTopic(goalId, topicData) ==
    /\ steps < MaxSteps
    /\ nextId <= MaxId
    /\ LET r == AddTopicOp(GetState(storage), goalId, topicData, nextId)
       IN  /\ storage' = Persisted(storage, r)
           /\ nextId' = IF r.ok THEN nextId + 1 ELSE nextId
           /\ last' = [op |-> "addTopic", ok |-> r.ok, error |-> r.error,
                       goalId |-> goalId]
    /\ Invoked
    /\ UNCHANGED now

RecordSession(sessionData) ==
    /\ steps < MaxSteps
    /\ nextId <= MaxId
    /\ LET r == RecordSessionOp(GetState(storage), sessionData, nextId)
       IN  /\ storage' = Persisted(storage, r)
           /\ nextId' = IF r.ok THEN nextId + 1 ELSE nextId
           /\ last' = IF r.ok
                       THEN [op |-> "recordSession", ok |-> TRUE, error |-> "",
                             goalId |-> sessionData.goalId,
                             topicId |-> sessionData.topicId,
                             date |-> sessionData.date,
                             durationMinutes |-> sessionData.durationMinutes,
                             id |-> nextId]
                       ELSE [op |-> "recordSession", ok |-> FALSE, error |-> r.error,
                             goalId |-> sessionData.goalId,
                             topicId |-> sessionData.topicId]
    /\ Invoked
    /\ UNCHANGED now

GenerateDailyPlan(date, aiReasoning, tasks) ==
    /\ steps < MaxSteps
    /\ LET r == GenerateDailyPlanOp(GetState(storage), date, aiReasoning, tasks, now)
       IN  /\ storage' = Persisted(storage, r)
           /\ last' = IF r.ok
                       THEN [op |-> "generateDailyPlan", ok |-> TRUE, error |-> "",
                             date |-> date, tasks |-> tasks,
                             reasoning |-> aiReasoning]
                       ELSE [op |-> "generateDailyPlan", ok |-> FALSE,
                             error |-> r.error, date |-> date,
                             rejected |-> FirstBadTask(GetState(storage), tasks)]
    /\ Invoked
    /\ UNCHANGED <<nextId, now>>

DeleteDailyPlan(date) ==
    /\ steps < MaxSteps
    /\ LET r == DeleteDailyPlanOp(GetState(storage), date)
       IN  /\ storage' = Persisted(storage, r)
           /\ last' = [op |-> "deleteDailyPlan", ok |-> r.ok, error |-> r.error,
                       date |-> date]
    /\ Invoked
    /\ UNCHANGED <<nextId, now>>

\* the clock advances between requests
Tick ==
    /\ steps < MaxSteps
    /\ now < MaxTime
    /\ now' = now + 1
    /\ last' = [op |-> "tick", ok |-> TRUE]
    /\ Invoked
    /\ UNCHANGED <<storage, nextId>>

Next ==
    \/ \E goalData \in GoalDataInputs : AddGoal(goalData)
    \/ \E goalId \in GoalIdInputs(GetState(storage), nextId) :
          \E updates \in UpdatesFor(GetState(storage), goalId) :
              UpdateGoal(goalId, updates)
    \/ \E goalId \in GoalIdInputs(GetState(storage), nextId) :
          DeleteGoal(goalId) \/ DeleteGoal(-goalId)
    \/ \E goalId \in GoalIdInputs(GetState(storage), nextId),
          topicData \in AddTopicInputs : AddTopic(goalId, topicData)
    \/ \E goalId \in GoalIdInputs(GetState(storage), nextId),
          topicId \in TopicIdInputs(GetState(storage), nextId),
          date \in {now}, durationMinutes \in Durations :
          RecordSession([goalId |-> goalId, topicId |-> topicId, date |-> date,
                         durationMinutes |-> durationMinutes])
    \/ \E date \in Days, aiReasoning \in Reasonings,
          tasks \in SeqsUpTo(TaskInputs(GetState(storage), nextId), MaxTasks) :
          GenerateDailyPlan(date, aiReasoning, tasks)
    \/ \E date \in Days : DeleteDailyPlan(date)
    \/ Tick

Spec == Init /\ [][Next]_vars

\* One session recorded on a topic in any review state: the store after one
\* addGoal whose single topic carries masteryLevel and reviewCount, followed
\* by one recordSession of any of the session lengths.
InitMastery ==
    \E masteryLevel \in MasteryLevels, reviewCount \in ReviewCounts :
        LET res == AddGoalOp(DefaultState,
                             GoalData(Some("Calc Final"), Some(5),
                                      <<TopicDataAt(masteryLevel, reviewCount)>>),
                             1, 0)
        IN  /\ storage = SetState(res.st)
            /\ nextId = 3
            /\ now = 0
            /\ last = [op |-> "addGoal", ok |-> TRUE, error |-> "", goalId |-> 1]
            /\ prev = AfterGetState(<<>>)
            /\ steps = MaxSteps - 1
            /\ requests = [r \in Requests |-> IdleRequest]

NextMastery ==
    \E durationMinutes \in MasteryDurations :
        RecordSession([goalId |-> 1, topicId |-> 2, date |-> now,
                       durationMinutes |-> durationMinutes])

SpecMastery == InitMastery /\ [][NextMastery]_vars

\* The read-only methods. Each loads the state through getState(), which
\* saves the default state when the key holds nothing, and returns a view.
GetTopicsNeedingReview ==
    /\ steps < MaxSteps
    /\ storage' = AfterGetState(storage)
    /\ last' = [op |-> "getTopicsNeedingReview", ok |-> TRUE,
                result |-> GetTopicsNeedingReviewOp(GetState(storage), now)]
    /\ Invoked
    /\ UNCHANGED <<nextId, now>>

GetGoalsWithDecay ==
    /\ steps < MaxSteps
    /\ storage' = AfterGetState(storage)
    /\ last' = [op |-> "getGoalsWithDecay", ok |-> TRUE,
                result |-> GetGoalsWithDecayOp(GetState(storage), now)]
    /\ Invoked
    /\ UNCHANGED <<nextId, now>>

GetDailyPlan(date) ==
    /\ steps < MaxSteps
    /\ storage' = AfterGetState(storage)
    /\ last' = [op |-> "getDailyPlan", ok |-> TRUE, date |-> date,
                result |-> GetDailyPlanOp(GetState(storage), date)]
    /\ Invoked
    /\ UNCHANGED <<nextId, now>>

\* The review queue is asked about a store holding two goals whose topics
\* were reviewed at any time of the last MaxDaysAgo days or never, with or
\* without a plan for today, or about a key that holds nothing yet.
ReviewNow == MaxDaysAgo * TicksPerDay

\* a topic entry with the review state (lastReviewed, reviewCount)
ReviewedTopicData(name, lastReviewed, reviewCount) ==
    [name |-> Some(name), lastReviewed |-> lastReviewed,
     reviewCount |-> Some(reviewCount), masteryLevel |-> Some(0)]

ReviewStates ==
    {<<Null, 0>>} \cup {<<Some(t), reviewCount>> : t \in 0..ReviewNow, reviewCount \in {0, 1}}

\* deadlines: today, and more than sixty days ahead
ReviewDeadlines == {ReviewNow, ReviewNow + 61 * TicksPerDay}

ReviewGoalData(title, status, priority, deadline, topics) ==
    [GoalData(Some(title), Some(priority), topics) EXCEPT
        !.status = Some(status), !.deadline = Some(deadline)]

FirstGoalInputs ==
    {ReviewGoalData("Calc Final", status, priority, deadline,
                    <<ReviewedTopicData("Limits", review[1], review[2])>> \o more) :
        status \in {"active", "completed"}, priority \in {1, 5},
        deadline \in ReviewDeadlines, review \in ReviewStates,
        more \in {<<>>, <<ReviewedTopicData("Series", Null, 0)>>}}

SecondGoalInputs ==
    {ReviewGoalData("Thesis", status, 3, ReviewNow,
                    <<ReviewedTopicData("Outline", review[1], review[2])>>) :
        status \in {"active", "archived"}, review \in ReviewStates}

\* the store after the two addGoal calls and, with a plan, generateDailyPlan
ReviewStore(first, second, withPlan) ==
    LET one == AddGoalOp(DefaultState, first, 1, 0).st
        two == AddGoalOp(one, second, 2 + Len(first.topics), 0).st
    IN  IF withPlan
        THEN GenerateDailyPlanOp(two, DayOf(ReviewNow), "r",
                                 <<[goalId |-> 1, topicId |-> 2]>>, ReviewNow).st
        ELSE two

InitReview ==
    /\ \/ storage = <<>>
       \/ \E first \in FirstGoalInputs, second \in SecondGoalInputs,
             withPlan \in BOOLEAN :
             storage = SetState(ReviewStore(first, second, withPlan))
    /\ nextId = MaxId
    /\ now = ReviewNow
    /\ last = [op |-> "init", ok |-> TRUE]
    /\ prev = storage
    /\ steps = MaxSteps - 1
    /\ requests = [r \in Requests |-> IdleRequest]

NextReview ==
    \/ GetTopicsNeedingReview
    \/ GetGoalsWithDecay
    \/ \E date \in {DayOf(ReviewNow), DayOf(ReviewNow) + 1} : GetDailyPlan(date)

SpecReview == InitReview /\ [][NextReview]_vars

\* The review queue of two active goals of any priority 1..5 and any
\* deadline on either side of each step of the time score, each with one
\* due topic.
RankingPriorities == 1..5

RankingDeadlines ==
    {ReviewNow + days * TicksPerDay : days \in {-1, 7, 8, 14, 15, 30, 31, 60, 61}}

\* review states of due topics: never reviewed, and reviewed once one
\* interval (orange) or one and a half intervals (red) ago
DueReviewStates ==
    {<<Null, 0>>,
     <<Some(ReviewNow - 3 * TicksPerDay), 1>>,
     <<Some(ReviewNow - 5 * TicksPerDay), 1>>}

RankingGoalInputs(title) ==
    {ReviewGoalData(title, "active", priority, deadline,
                    <<ReviewedTopicData("Limits", review[1], review[2])>>) :
        priority \in RankingPriorities, deadline \in RankingDeadlines,
        review \in DueReviewStates}

InitRanking ==
    /\ \E first \in RankingGoalInputs("Calc Final"),
          second \in RankingGoalInputs("Thesis") :
          storage = SetState(ReviewStore(first, second, FALSE))
    /\ nextId = MaxId
    /\ now = ReviewNow
    /\ last = [op |-> "init", ok |-> TRUE]
    /\ prev = storage
    /\ steps = MaxSteps - 1
    /\ requests = [r \in Requests |-> IdleRequest]

NextRanking == GetTopicsNeedingReview

SpecRanking == InitRanking /\ [][NextRanking]_vars

\* The two helper functions of the types module, called on their own: the
\* urgency score of any priority 1..5 and any deadline from two days past to
\* MaxDaysToDeadline days ahead, and the decay level of a topic never
\* reviewed or reviewed at any time of the last MaxDaysSinceReview days, with
\* any review count 0..MaxCount.
ScoringNow == MaxDaysSinceReview * TicksPerDay

ScoringDeadlines ==
    (ScoringNow - 2 * TicksPerDay)..(ScoringNow + MaxDaysToDeadline * TicksPerDay + 1)

GetUrgencyScoreCall(deadline, priority) ==
    /\ steps < MaxSteps
    /\ last' = [op |-> "getUrgencyScore", ok |-> TRUE, deadline |-> deadline,
                priority |-> priority,
                result |-> GetUrgencyScore(deadline, priority, now)]
    /\ Invoked
    /\ UNCHANGED <<storage, nextId, now>>

CalculateMemoryDecayLevelCall(lastReviewed, reviewCount) ==
    /\ steps < MaxSteps
    /\ last' = [op |-> "calculateMemoryDecayLevel", ok |-> TRUE,
                lastReviewed |-> lastReviewed, reviewCount |-> reviewCount,
                result |-> CalculateMemoryDecayLevel(lastReviewed, reviewCount, now)]
    /\ Invoked
    /\ UNCHANGED <<storage, nextId, now>>

InitScoring ==
    /\ storage = <<>>
    /\ nextId = 1
    /\ now \in {ScoringNow, ScoringNow + 1}
    /\ last = [op |-> "init", ok |-> TRUE]
    /\ prev = storage
    /\ steps = MaxSteps - 1
    /\ requests = [r \in Requests |-> IdleRequest]

NextScoring ==
    \/ \E deadline \in ScoringDeadlines, priority \in RankingPriorities :
          GetUrgencyScoreCall(deadline, priority)
    \/ \E lastReviewed \in {Null} \cup {Some(t) : t \in 0..ScoringNow},
          reviewCount \in 0..MaxCount :
          CalculateMemoryDecayLevelCall(lastReviewed, reviewCount)

SpecScoring == InitScoring /\ [][NextScoring]_vars

\* Sessions and due checks over days: a goal with one topic never reviewed is
\* stored, then sessions are recorded, days pass and the three due checks
\* (the review queue, the planner's list, the page's isDueForReview) are run.
\* time passes between two requests
Pass(ticks) ==
    /\ steps < MaxSteps
    /\ now + ticks <= MaxDueDays * TicksPerDay
    /\ now' = now + ticks
    /\ last' = [op |-> "tick", ok |-> TRUE]
    /\ Invoked
    /\ UNCHANGED <<storage, nextId>>

\* the planner lists the topics needing review of the state it was handed
PlannerTopicsNeedingReviewCall ==
    /\ steps < MaxSteps
    /\ storage' = AfterGetState(storage)
    /\ last' = [op |-> "topicsNeedingReview", ok |-> TRUE,
                result |-> PlannerTopicsNeedingReview(GetState(storage), now)]
    /\ Invoked
    /\ UNCHANGED <<nextId, now>>

\* the page asks whether a topic it was handed is due
IsDueForReviewCall(topic) ==
    /\ steps < MaxSteps
    /\ last' = [op |-> "isDueForReview", ok |-> TRUE, topic |-> topic,
                result |-> IsDueForReview(topic, now)]
    /\ Invoked
    /\ UNCHANGED <<storage, nextId, now>>

InitDue ==
    /\ storage = SetState(AddGoalOp(DefaultState,
                      GoalData(Some("Calc Final"), Some(5), <<FreshTopicData>>),
                      1, 0).st)
    /\ nextId = 3
    /\ now = 0
    /\ last = [op |-> "init", ok |-> TRUE]
    /\ prev = storage
    /\ steps = 0
    /\ requests = [r \in Requests |-> IdleRequest]

NextDue ==
    \/ \E durationMinutes \in Durations :
          RecordSession([goalId |-> 1, topicId |-> 2, date |-> now,
                         durationMinutes |-> durationMinutes])
    \/ \E ticks \in 1..(7 * TicksPerDay + 1) : Pass(ticks)
    \/ GetTopicsNeedingReview
    \/ PlannerTopicsNeedingReviewCall
    \/ \E goal \in {GetState(storage).goals[i] : i \in 1..Len(GetState(storage).goals)} :
          \E topic \in {goal.topics[j] : j \in 1..Len(goal.topics)} :
              IsDueForReviewCall(topic)

SpecDue == InitDue /\ [][NextDue]_vars

\* POST /api/plan/generate. The route reads the state from the object, runs
\* the planner on that snapshot (three calls of the model at most) and sends
\* the plan to the object in a second request; the object may serve other
\* requests of the same user in between. The store holds a first goal with
\* up to five topics and possibly a second goal.
PlanTopics ==
    {<<>>,
     <<ReviewedTopicData("Limits", Null, 0)>>,
     <<ReviewedTopicData("Limits", Some(ReviewNow), 1)>>,
     <<ReviewedTopicData("Limits", Some(ReviewNow), 1),
       ReviewedTopicData("Series", Some(ReviewNow - 3 * TicksPerDay), 1)>>,
     [i \in 1..(MaxFallback + 1) |-> ReviewedTopicData("Limits", Null, 0)]}

PlanStores ==
    {AddGoalOp(DefaultState,
               ReviewGoalData("Calc Final", status, 5, ReviewNow, topics), 1, 0).st :
         status \in {"active", "completed"}, topics \in PlanTopics}
    \cup
    {ReviewStore(ReviewGoalData("Calc Final", status, 5, ReviewNow,
                                <<ReviewedTopicData("Limits", Null, 0)>>),
                 ReviewGoalData("Thesis", "active", 3, ReviewNow,
                                <<ReviewedTopicData("Outline", Null, 0)>>),
                 FALSE) :
         status \in {"active", "completed"}}

\* the tasks a reply of the model may hold: ids of the state or unknown
\* ones in any pairing, with a length inside or below the accepted range
ModelTasks(state) ==
    {[topicId |-> topicId, goalId |-> goalId, type |-> "study",
      estimatedMinutes |-> estimatedMinutes, priority |-> 3,
      reasoning |-> <<"from the model">>] :
         topicId \in {2}, goalId \in GoalIds(state) \cup {MaxId},
         estimatedMinutes \in {10, 60}}

\* the replies of one plan generation: each call throws, yields text without
\* a tasks array, or yields the tasks
ModelReplies(state) ==
    {[k \in 1..MaxAttempts |->
         [kind |-> kinds[k], tasks |-> tasks, reasoning |-> "model plan"]] :
         kinds \in [1..MaxAttempts -> {"throws", "text", "tasks"}],
         tasks \in SeqsUpTo(ModelTasks(state), MaxModelTasks) \ {<<>>}}

\* the route up to the planner's return: the date is checked, the state is
\* read (GET /state) and the planner runs on it; a throw ends the request
PlanSnapshot(r, bodyDate, replies) ==
    /\ steps < MaxSteps
    /\ requests[r].pc = "idle"
    /\ LET date == IF bodyDate = Null THEN DayOf(now) ELSE bodyDate[1]
           userState == GetState(storage)
           planned == PlannerGenerateDailyPlan(userState, date, replies, now)
       IN  IF date < 0
           THEN /\ last' = [op |-> "generatePlan", ok |-> FALSE,
                            error |-> "InvalidDate", date |-> date,
                            replies |-> replies, attempts |-> 0,
                            snapshot |-> Null, plan |-> Null]
                /\ requests' = [requests EXCEPT ![r].pc = "done"]
                /\ UNCHANGED storage
           ELSE /\ storage' = AfterGetState(storage)
                /\ IF planned.ok
                   THEN /\ requests' = [requests EXCEPT
                               ![r].pc = "planned",
                               ![r].state = Some(userState),
                               ![r].body = Some([plan |-> planned.plan[1],
                                                 replies |-> replies,
                                                 attempts |-> planned.attempts])]
                        /\ last' = [op |-> "planRequested", ok |-> TRUE,
                                    date |-> date]
                   ELSE /\ requests' = [requests EXCEPT ![r].pc = "done"]
                        /\ last' = [op |-> "generatePlan", ok |-> FALSE,
                                    error |-> planned.error, date |-> date,
                                    replies |-> replies,
                                    attempts |-> planned.attempts,
                                    snapshot |-> Some(userState), plan |-> Null]
    /\ steps' = steps + 1
    /\ prev' = storage
    /\ UNCHANGED <<nextId, now>>

\* the rest of the route: the plan is sent to the object (POST /daily-plans),
\* which validates the tasks against its current state and stores the plan
PlanStore(r) ==
    /\ steps < MaxSteps
    /\ requests[r].pc = "planned"
    /\ LET plan == requests[r].body[1].plan
           res == GenerateDailyPlanOp(GetState(storage), plan.date, plan.reasoning,
                                      plan.tasks, now)
       IN  /\ storage' = Persisted(storage, res)
           /\ last' = [op |-> "generatePlan", ok |-> res.ok, error |-> res.error,
                       date |-> plan.date,
                       replies |-> requests[r].body[1].replies,
                       attempts |-> requests[r].body[1].attempts,
                       snapshot |-> requests[r].state, plan |-> Some(plan)]
    /\ requests' = [requests EXCEPT ![r] = [IdleRequest EXCEPT !.pc = "done"]]
    /\ steps' = steps + 1
    /\ prev' = storage
    /\ UNCHANGED <<nextId, now>>

InitPlan ==
    /\ storage \in {SetState(state) : state \in PlanStores}
    /\ nextId = MaxId
    /\ now = ReviewNow
    /\ last = [op |-> "init", ok |-> TRUE]
    /\ prev = storage
    /\ steps = MaxSteps - 3
    /\ requests = [r \in Requests |-> IdleRequest]

\* One request generates a plan, the other requests of the user are served
\* whole. The date of the request body is absent (today), a day, or
\* malformed (-1).
NextPlan ==
    \/ \E bodyDate \in {Null, Some(DayOf(ReviewNow)), Some(-1)},
          replies \in ModelReplies(GetState(storage)) :
          PlanSnapshot(1, bodyDate, replies)
    \/ PlanStore(1)
    \/ \E goalId \in GoalIds(GetState(storage)) : DeleteGoal(goalId)

SpecPlan == InitPlan /\ [][NextPlan]_vars

\* Requests of several users. The middleware takes the user id from the
\* X-User-Id header, else from the userId query parameter, else it is
\* "default-user"; getUserStateDO names the durable object after it. In this
\* specification storage and prev map each object to the value it holds.
UserKeys == {"u1", "u2", "default-user"}

\* c.req.header("X-User-Id") || c.req.query("userId") || "default-user"
UserIdOf(header, query) ==
    IF header # Null /\ header[1] # "" THEN header[1]
    ELSE IF query # Null /\ query[1] # "" THEN query[1]
    ELSE "default-user"

\* the naming as it would be if every name gave the same object
IdFromNameShared(userId) == "default-user"

\* env.USER_STATE.idFromName(userId): one object per name
IdFromName(userId) == userId

\* getState() of an object: the stored value, or the default state with the
\* object's id
ObjectState(object, stg) ==
    IF stg # <<>> THEN stg[1] ELSE [DefaultState EXCEPT !.userId = object]

\* what the object holds once a method has run with result r
ObjectPersisted(object, stg, r) ==
    IF r.ok THEN SetState(r.st) ELSE <<ObjectState(object, stg)>>

\* a request is routed to the object of its user and served there
Routed(header, query) ==
    /\ steps < MaxSteps
    /\ steps' = steps + 1
    /\ prev' = storage
    /\ UNCHANGED <<now, requests>>

KeyedAddGoal(header, query, goalData) ==
    /\ Routed(header, query)
    /\ nextId + Len(goalData.topics) <= MaxId
    /\ LET object == IdFromName(UserIdOf(header, query))
           r == AddGoalOp(ObjectState(object, storage[object]), goalData, nextId, now)
       IN  /\ storage' = [storage EXCEPT ![object] = ObjectPersisted(object, @, r)]
           /\ nextId' = IF r.ok THEN nextId + 1 + Len(goalData.topics) ELSE nextId
           /\ last' = [op |-> "addGoal", ok |-> r.ok, error |-> r.error,
                       userId |-> UserIdOf(header, query), goalId |-> nextId,
                       goalData |-> goalData]

KeyedDeleteGoal(header, query, goalId) ==
    /\ Routed(header, query)
    /\ LET object == IdFromName(UserIdOf(header, query))
           r == DeleteGoalOp(ObjectState(object, storage[object]), goalId)
       IN  /\ storage' = [storage EXCEPT ![object] = ObjectPersisted(object, @, r)]
           /\ last' = [op |-> "deleteGoal", ok |-> r.ok, error |-> r.error,
                       userId |-> UserIdOf(header, query), goalId |-> goalId]
    /\ UNCHANGED nextId

KeyedRecordSession(header, query, sessionData) ==
    /\ Routed(header, query)
    /\ nextId <= MaxId
    /\ LET object == IdFromName(UserIdOf(header, query))
           r == RecordSessionOp(ObjectState(object, storage[object]), sessionData, nextId)
       IN  /\ storage' = [storage EXCEPT ![object] = ObjectPersisted(object, @, r)]
           /\ nextId' = IF r.ok THEN nextId + 1 ELSE nextId
           /\ last' = [op |-> "recordSession", ok |-> r.ok, error |-> r.error,
                       userId |-> UserIdOf(header, query),
                       sessionData |-> sessionData, id |-> nextId]

KeyedGetTopicsNeedingReview(header, query) ==
    /\ Routed(header, query)
    /\ LET object == IdFromName(UserIdOf(header, query))
       IN  /\ storage' = [storage EXCEPT ![object] = <<ObjectState(object, @)>>]
           /\ last' = [op |-> "getTopicsNeedingReview", ok |-> TRUE,
                       userId |-> UserIdOf(header, query),
                       result |-> GetTopicsNeedingReviewOp(
                                      ObjectState(object, storage[object]), now)]
    /\ UNCHANGED nextId

InitKeys ==
    /\ storage = [object \in UserKeys |-> <<>>]
    /\ nextId = 1
    /\ now = 0
    /\ last = [op |-> "init", ok |-> TRUE]
    /\ prev = storage
    /\ steps = 1
    /\ requests = [r \in Requests |-> IdleRequest]

\* the header and the query parameter of a request are absent, empty or a name
NextKeys ==
    \E header \in {Null, Some(""), Some("u1"), Some("u2")},
       query \in {Null, Some("u2")} :
        \/ \E topics \in SeqsUpTo(TopicDataInputs, MaxTopics) :
              KeyedAddGoal(header, query, GoalData(Some("Calc Final"), Some(5), topics))
        \/ \E goalId \in 1..(nextId - 1) : KeyedDeleteGoal(header, query, goalId)
        \/ \E goalId \in 1..(nextId - 1), topicId \in 1..(nextId - 1) :
              KeyedRecordSession(header, query,
                  [goalId |-> goalId, topicId |-> topicId, date |-> now,
                   durationMinutes |-> 90])
        \/ KeyedGetTopicsNeedingReview(header, query)

SpecKeys == InitKeys /\ [][NextKeys]_vars

\* Goals and topics edited with payloads of any content. addTopic stores the
\* topic payload as it comes, and PUT /api/goals/:id forwards its body to
\* updateGoal, so a caller may send topic fields of its own choosing.
\* update payloads for goalId: a status, and the goal's topics sent back
\* with each topic listed twice
EditUpdatesFor(state, goalId) ==
    {[NoUpdates EXCEPT !.status = Some("completed")]}
    \cup
    (IF GoalIndex(state, goalId) = 0 THEN {}
     ELSE {[NoUpdates EXCEPT !.topics =
               Some(state.goals[GoalIndex(state, goalId)].topics
                        \o state.goals[GoalIndex(state, goalId)].topics)]})

NextEdits ==
    \/ \E topics \in SeqsUpTo(TopicDataInputs, MaxTopics) :
          AddGoal(GoalData(Some("Calc Final"), Some(5), topics))
    \/ \E goalId \in GoalIdInputs(GetState(storage), nextId) :
          \E updates \in EditUpdatesFor(GetState(storage), goalId) :
              UpdateGoal(goalId, updates)
    \/ \E goalId \in GoalIdInputs(GetState(storage), nextId),
          topicData \in AddTopicInputs \cup
              {[name |-> "Series", lastReviewed |-> Null, reviewCount |-> 3,
                masteryLevel |-> 150]} :
          AddTopic(goalId, topicData)
    \/ \E goalId \in GoalIdInputs(GetState(storage), nextId),
          topicId \in TopicIdInputs(GetState(storage), nextId) :
          RecordSession([goalId |-> goalId, topicId |-> topicId, date |-> now,
                         durationMinutes |-> 90])

SpecEdits == Init /\ [][NextEdits]_vars

\* The chat Memory object. In this specification storage is what the object
\* holds under the key "turns". fetch() reads the turns, awaits the model
\* (other requests may be delivered to the object meanwhile) and then writes
\* the turns it read with the new exchange appended, cut to the last
\* MaxTurns. Messages are numbered in the order the requests arrive; last
\* carries the exchanges completed so far and whether requests overlapped.
StoredTurns(stg) == IF stg # <<>> THEN stg[1] ELSE <<>>

\* the cut as it would be if it kept the first entries
CappedFromStart(updated) ==
    IF Len(updated) <= MaxTurns THEN updated ELSE SubSeq(updated, 1, MaxTurns)

\* updated.slice(-10)
Capped(updated) ==
    IF Len(updated) <= MaxTurns THEN updated
    ELSE SubSeq(updated, Len(updated) - MaxTurns + 1, Len(updated))

\* the two turns of an exchange; an empty answer of the model is stored as
\* "No response"
Exchange(message, answered) ==
    <<[role |-> "user", content |-> <<"message", message>>],
      [role |-> "assistant",
       content |-> IF answered THEN <<"reply", message>> ELSE <<"No response">>]>>

\* fetch() up to the call of the model: the checks, then the turns are read.
\* A request brings another method, a body that is no JSON, a body without
\* a message, or a message
ChatLoad(r, body) ==
    /\ steps < MaxChatSteps
    /\ requests[r].pc = "idle"
    /\ IF body = "message"
       THEN /\ requests' = [requests EXCEPT
                   ![r].pc = "waiting",
                   ![r].body = Some(nextId),
                   ![r].state = Some(StoredTurns(storage))]
            /\ nextId' = nextId + 1
            /\ last' = [op |-> "chatLoaded", ok |-> TRUE, status |-> 0,
                        history |-> last.history,
                        overlapped |-> \/ last.overlapped
                                       \/ \E q \in Requests \ {r} :
                                             requests[q].pc = "waiting"]
       ELSE /\ last' = [op |-> "chat", ok |-> FALSE,
                        status |-> IF body = "GET" THEN 405 ELSE 400,
                        history |-> last.history, overlapped |-> last.overlapped]
            /\ UNCHANGED <<requests, nextId>>
    /\ steps' = steps + 1
    /\ prev' = storage
    /\ UNCHANGED <<storage, now>>

\* the model answers (with a text or with nothing) or throws; after an
\* answer the turns read at the start, with the exchange, are stored
ChatStore(r, outcome) ==
    /\ steps < MaxChatSteps
    /\ requests[r].pc = "waiting"
    /\ LET exchange == Exchange(requests[r].body[1], outcome = "reply")
       IN  IF outcome = "throws"
           THEN /\ last' = [op |-> "chat", ok |-> FALSE, status |-> 500,
                            history |-> last.history,
                            overlapped |-> last.overlapped]
                /\ UNCHANGED storage
           ELSE /\ storage' = <<Capped(requests[r].state[1] \o exchange)>>
                /\ last' = [op |-> "chat", ok |-> TRUE, status |-> 200,
                            history |-> last.history \o exchange,
                            overlapped |-> last.overlapped]
    /\ requests' = [requests EXCEPT ![r] = IdleRequest]
    /\ steps' = steps + 1
    /\ prev' = storage
    /\ UNCHANGED <<nextId, now>>

InitChat ==
    /\ storage = <<>>
    /\ nextId = 1
    /\ now = 0
    /\ last = [op |-> "init", ok |-> TRUE, status |-> 0, history |-> <<>>,
               overlapped |-> FALSE]
    /\ prev = storage
    /\ steps = 0
    /\ requests = [r \in Requests |-> IdleRequest]

NextChat ==
    \E r \in Requests :
        \/ \E body \in {"GET", "invalid JSON", "no message", "message"} :
              ChatLoad(r, body)
        \/ \E outcome \in {"reply", "empty", "throws"} : ChatStore(r, outcome)

SpecChat == InitChat /\ [][NextChat]_vars

\* Goals created through POST /api/goals (topics start with reviewCount 0
\* and no lastReviewed), sessions, deletions and plans, with no updateGoal
\* and no addTopic.
NextSessions ==
    \/ \E goalData \in GoalDataInputs : AddGoal(goalData)
    \/ \E goalId \in GoalIdInputs(GetState(storage), nextId) :
          DeleteGoal(goalId) \/ DeleteGoal(-goalId)
    \/ \E goalId \in GoalIdInputs(GetState(storage), nextId),
          topicId \in TopicIdInputs(GetState(storage), nextId),
          durationMinutes \in Durations :
          RecordSession([goalId |-> goalId, topicId |-> topicId, date |-> now,
                         durationMinutes |-> durationMinutes])
    \/ \E date \in Days, aiReasoning \in Reasonings,
          tasks \in SeqsUpTo(TaskInputs(GetState(storage), nextId), MaxTasks) :
          GenerateDailyPlan(date, aiReasoning, tasks)
    \/ \E date \in Days : DeleteDailyPlan(date)
    \/ Tick

SpecSessions == Init /\ [][NextSessions]_vars

\* GET /api/review with or without the asOfDate query parameter: a date of
\* the past, today, a date far ahead, or a text that is no date (-1)
AsOfDates ==
    {Null, Some(-1), Some(0), Some(ReviewNow - 3 * TicksPerDay), Some(ReviewNow),
     Some(ReviewNow + 40 * TicksPerDay)}

\* the route hands asOfDate to the object's getTopicsNeedingReview
ReviewAsOf(asOfDate) ==
    /\ steps < MaxSteps
    /\ storage' = AfterGetState(storage)
    /\ last' = [op |-> "review", ok |-> TRUE, asOfDate |-> asOfDate,
                result |-> GetTopicsNeedingReviewAsOf(GetState(storage), asOfDate, now)]
    /\ Invoked
    /\ UNCHANGED <<nextId, now>>

NextAsOf == \E asOfDate \in AsOfDates : ReviewAsOf(asOfDate)

SpecAsOf == InitReview /\ [][NextAsOf]_vars

\* Overlapping POST /goals requests on one durable object. fetch() awaits
\* the request body, then addGoal() awaits storage.get in getState(), runs
\* to its storage.put in setState() without another await, and returns.

\* the gate as it would be if events were delivered during storage awaits
InputGateAlwaysOpen(r) == TRUE

\* The object's input gate: while a request awaits a storage operation no
\* other event is delivered to the object, so no request resumes between
\* another request's storage.get and the write of its storage.put.
InputGateOpen(r) ==
    \A q \in Requests \ {r} : requests[q].pc # "loaded"

\* fetch() is entered and awaits request.json()
Arrive(r, goalData) ==
    /\ requests[r].pc = "idle"
    /\ requests' = [requests EXCEPT ![r].pc = "parsing", ![r].body = Some(goalData)]
    /\ UNCHANGED <<storage, nextId, now, last, prev, steps>>

\* addGoal() is entered: getState() loads the state (saving the default one)
Load(r) ==
    /\ requests[r].pc = "parsing"
    /\ InputGateOpen(r)
    /\ storage' = AfterGetState(storage)
    /\ requests' = [requests EXCEPT
            ![r].pc = "loaded",
            ![r].state = Some(GetState(storage)),
            ![r].overlapped = \E q \in Requests \ {r} :
                                 requests[q].pc \in {"parsing", "loaded"}]
    /\ UNCHANGED <<nextId, now, last, prev, steps>>

\* addGoal() runs on the loaded state up to setState(), or throws
Persist(r) ==
    /\ requests[r].pc = "loaded"
    /\ nextId + Len(requests[r].body[1].topics) <= MaxId
    /\ LET res == AddGoalOp(requests[r].state[1], requests[r].body[1], nextId, now)
       IN  /\ storage' = IF res.ok THEN SetState(res.st) ELSE storage
           /\ nextId' = IF res.ok
                         THEN nextId + 1 + Len(requests[r].body[1].topics)
                         ELSE nextId
           /\ requests' = [requests EXCEPT
                   ![r].pc = "done", ![r].ok = res.ok, ![r].goalId = nextId]
    /\ UNCHANGED <<now, last, prev, steps>>

NextConc ==
    \E r \in Requests :
        \/ \E goalData \in GoalDataInputs : Arrive(r, goalData)
        \/ Load(r)
        \/ Persist(r)

SpecConc == Init /\ [][NextConc]_vars

\* ============================================================ properties
\* The state an operation started from and the state it left behind, as
\* getState() returns them.
Before == GetState(prev)

After == GetState(storage)

Goals(state) == {state.goals[i] : i \in 1..Len(state.goals)}

Topics(state) ==
    UNION {{g.topics[j] : j \in 1..Len(g.topics)} : g \in Goals(state)}

Sessions(state) == {state.sessions[i] : i \in 1..Len(state.sessions)}

Plans(state) == {state.dailyPlans[i] : i \in 1..Len(state.dailyPlans)}

TasksOf(plan) == {plan.tasks[i] : i \in 1..Len(plan.tasks)}

\* the (goalId, topicId) pair names a topic inside the goal of that id
Resolves(state, goalId, topicId) ==
    \E g \in Goals(state) :
        /\ g.id = goalId
        /\ \E j \in 1..Len(g.topics) : g.topics[j].id = topicId

\* ---------------------------------------------------------------------- C1
\* C1: deleteGoal(g) on an existing goal succeeds and leaves the goals without
\* g, the sessions without those of g, every plan in place (same dates, same
\* order) with exactly the tasks of g taken out, and all else as it was.
C1_DeleteGoalCascades ==
    (last.op = "deleteGoal" /\ last.goalId \in GoalIds(Before)) =>
        /\ last.ok
        /\ After.goals = SelectSeq(Before.goals, LAMBDA g : g.id # last.goalId)
        /\ After.sessions =
               SelectSeq(Before.sessions, LAMBDA s : s.goalId # last.goalId)
        /\ Len(After.dailyPlans) = Len(Before.dailyPlans)
        /\ \A i \in 1..Len(Before.dailyPlans) :
              After.dailyPlans[i] =
                  [Before.dailyPlans[i] EXCEPT !.tasks =
                      SelectSeq(@, LAMBDA t : t.goalId # last.goalId)]
        /\ After.lastPlanGenerated = Before.lastPlanGenerated

\* a goal with a session and a planned task was deleted, and the plan it was
\* in still holds the task of another goal
C1_Witness ==
    /\ last.op = "deleteGoal" /\ last.ok /\ last.goalId \in GoalIds(Before)
    /\ \E s \in Sessions(Before) : s.goalId = last.goalId
    /\ \E i \in 1..Len(Before.dailyPlans) :
          /\ \E t \in TasksOf(Before.dailyPlans[i]) : t.goalId = last.goalId
          /\ Len(After.dailyPlans[i].tasks) = 1
          /\ After.dailyPlans[i].tasks[1].goalId # last.goalId

\* ---------------------------------------------------------------------- C2
\* C2: in every reachable state no two stored plans have the same date, and
\* after a successful generateDailyPlan(d, ...) exactly one stored plan has
\* date d and it is the plan just supplied.
C2_OnePlanPerDate ==
    /\ \A i, j \in 1..Len(After.dailyPlans) :
          After.dailyPlans[i].date = After.dailyPlans[j].date => i = j
    /\ (last.op = "generateDailyPlan" /\ last.ok) =>
          /\ Cardinality({i \in 1..Len(After.dailyPlans) :
                              After.dailyPlans[i].date = last.date}) = 1
          /\ \A p \in Plans(After) :
                p.date = last.date =>
                    p = [date |-> last.date, generatedAt |-> now,
                         tasks |-> last.tasks, reasoning |-> last.reasoning]

\* a plan was generated for a date that already had a plan with other tasks,
\* while a plan for another date was stored too
C2_Witness ==
    /\ last.op = "generateDailyPlan" /\ last.ok
    /\ \E p \in Plans(Before) : p.date = last.date /\ p.tasks # last.tasks
    /\ \E p \in Plans(Before) : p.date # last.date

\* ---------------------------------------------------------------------- C3
\* C3: generateDailyPlan succeeds only when every task's (goalId, topicId)
\* names a topic inside an existing goal; when it fails, the state (goals,
\* sessions, dailyPlans, lastPlanGenerated) is the one it started from.
C3_InvalidPlanChangesNothing ==
    last.op = "generateDailyPlan" =>
        /\ last.ok =>
              \A i \in 1..Len(last.tasks) :
                  Resolves(Before, last.tasks[i].goalId, last.tasks[i].topicId)
        /\ ~last.ok =>
              /\ last.error \in {"GoalNotFound", "TopicNotFound"}
              /\ After = Before

\* a call whose first task was valid and whose second was not failed, and the
\* plan stored earlier for that date is still there
C3_Witness ==
    /\ last.op = "generateDailyPlan" /\ ~last.ok /\ last.rejected = 2
    /\ \E p \in Plans(Before) : p.date = last.date /\ Len(p.tasks) > 0
    /\ \E p \in Plans(After) : p.date = last.date /\ Len(p.tasks) > 0

\* ---------------------------------------------------------------------- C7
\* C7: a successful recordSession appends exactly one session carrying the
\* given topicId and goalId to the sessions stored before, sets the topic's
\* lastReviewed to the session date and its reviewCount to one more; every
\* other topic and every goal field is what it was.
C7_RecordSessionEffect ==
    (last.op = "recordSession" /\ last.ok) =>
        /\ After.sessions = Append(Before.sessions,
               [id |-> last.id, topicId |-> last.topicId, goalId |-> last.goalId,
                date |-> last.date, durationMinutes |-> last.durationMinutes])
        /\ Len(After.goals) = Len(Before.goals)
        /\ \A i \in 1..Len(Before.goals) :
              /\ [After.goals[i] EXCEPT !.topics = <<>>]
                     = [Before.goals[i] EXCEPT !.topics = <<>>]
              /\ Len(After.goals[i].topics) = Len(Before.goals[i].topics)
              /\ \A j \in 1..Len(Before.goals[i].topics) :
                    LET old == Before.goals[i].topics[j]
                        new == After.goals[i].topics[j]
                    IN  IF old.id = last.topicId /\ Before.goals[i].id = last.goalId
                        THEN new = [old EXCEPT
                                       !.lastReviewed = Some(last.date),
                                       !.reviewCount  = @ + 1,
                                       !.masteryLevel = new.masteryLevel]
                        ELSE new = old

\* a second session was recorded on a topic reviewed at an earlier time, in
\* a goal that has another topic too
C7_Witness ==
    /\ last.op = "recordSession" /\ last.ok
    /\ Len(Before.sessions) > 0
    /\ \E t \in Topics(Before) :
          /\ t.id = last.topicId
          /\ t.lastReviewed # Null /\ t.lastReviewed # Some(last.date)
    /\ \E t \in Topics(After) : t.id # last.topicId /\ t.goalId = last.goalId

\* ---------------------------------------------------------------------- C8
\* C8: recordSession fails with a not-found error exactly when its goalId
\* names no goal or its topicId names no topic of that goal (a topic of
\* another goal included), and then the stored state is what it was: no
\* session appended, no topic changed, no plan modified.
C8_RecordSessionNotFound ==
    last.op = "recordSession" =>
        /\ last.ok <=> Resolves(Before, last.goalId, last.topicId)
        /\ ~last.ok =>
              /\ last.error \in {"GoalNotFound", "TopicNotFound"}
              /\ After = Before

\* a session naming an existing goal and a topic of a different goal failed
C8_Witness ==
    /\ last.op = "recordSession" /\ ~last.ok
    /\ last.goalId \in GoalIds(Before)
    /\ \E t \in Topics(Before) : t.id = last.topicId /\ t.goalId # last.goalId
    /\ Len(Before.dailyPlans) > 0

\* ---------------------------------------------------------------------- C9
\* C9: a successful recordSession keeps every plan (same number, same dates,
\* generatedAt and reasoning); the plan dated the session's calendar day
\* loses exactly the tasks matching both the session's topicId and goalId,
\* and every plan of another date keeps all its tasks.
C9_RecordSessionRetiresTasks ==
    (last.op = "recordSession" /\ last.ok) =>
        /\ Len(After.dailyPlans) = Len(Before.dailyPlans)
        /\ \A i \in 1..Len(Before.dailyPlans) :
              LET plan == Before.dailyPlans[i]
              IN  IF plan.date = DayOf(last.date)
                  THEN After.dailyPlans[i] = [plan EXCEPT !.tasks =
                           SelectSeq(@, LAMBDA t :
                               t.topicId # last.topicId \/ t.goalId # last.goalId)]
                  ELSE After.dailyPlans[i] = plan

\* the session's day had a plan with a task of the session's topic and a task
\* of another topic, and a plan of another day had a task of the session's
\* topic as well
C9_Witness ==
    /\ last.op = "recordSession" /\ last.ok
    /\ \E p \in Plans(Before) :
          /\ p.date = DayOf(last.date)
          /\ \E i \in 1..Len(p.tasks) : p.tasks[i].topicId = last.topicId
          /\ \E i \in 1..Len(p.tasks) : p.tasks[i].topicId # last.topicId
    /\ \E p \in Plans(After) :
          /\ p.date # DayOf(last.date)
          /\ \E i \in 1..Len(p.tasks) : p.tasks[i].topicId = last.topicId

\* ------------------------------------------------------------ C4, C5, C6
\* the topic a recordSession named, as loaded and as stored
ReviewedBefore ==
    CHOOSE t \in Topics(Before) : t.id = last.topicId /\ t.goalId = last.goalId

ReviewedAfter ==
    CHOOSE t \in Topics(After) : t.id = last.topicId /\ t.goalId = last.goalId

\* C4 as stated: after a successful recordSession the topic's masteryLevel
\* is at least the old value plus 1 and at most 100, for every old
\* masteryLevel in 0..100.
C4_AlwaysGainsOne ==
    (last.op = "recordSession" /\ last.ok) =>
        /\ ReviewedAfter.masteryLevel >= ReviewedBefore.masteryLevel + 1
        /\ ReviewedAfter.masteryLevel <= 100

\* C4: after a successful recordSession the topic's masteryLevel is at most
\* 100; it is at least the old value plus 1 when the old value is below 100,
\* and it stays 100 when the old value is 100.
C4_GainsOneBelowCap ==
    (last.op = "recordSession" /\ last.ok) =>
        /\ ReviewedAfter.masteryLevel <= 100
        /\ ReviewedBefore.masteryLevel < 100 =>
              ReviewedAfter.masteryLevel >= ReviewedBefore.masteryLevel + 1
        /\ ReviewedBefore.masteryLevel = 100 => ReviewedAfter.masteryLevel = 100

\* a short late review of a nearly mastered topic, whose scaled increase
\* floors to 0, gained exactly the minimum of 1
C4_Witness ==
    /\ last.op = "recordSession" /\ last.ok
    /\ ReviewedBefore.masteryLevel \in 95..99
    /\ DiminishingReturns(ReviewedBefore.masteryLevel,
           BaseIncrease(ReviewedAfter.reviewCount)
               + DurationBonus(last.durationMinutes)) = 0
    /\ ReviewedAfter.masteryLevel = ReviewedBefore.masteryLevel + 1

\* the documented policy, step by step
PolicyBase(n) ==
    CASE n = 1 -> 20
      [] n = 2 -> 18
      [] n \in 3..5 -> 12 + (5 - n)
      [] n \in 6..10 -> 8 + ((10 - n) * 6) \div 10
      [] n \in 11..20 -> 5 + ((20 - n) * 2) \div 10
      [] OTHER -> Max(3, 3 + (Max(0, 30 - n) * 2) \div 10)

PolicyBonus(minutes) ==
    CASE minutes >= 90 -> 8
      [] minutes \in 60..89 -> 5
      [] minutes \in 45..59 -> 3
      [] minutes \in 30..44 -> 1
      [] OTHER -> 0

PolicyTenths(mastery) ==
    CASE mastery >= 95 -> 2
      [] mastery \in 85..94 -> 4
      [] mastery \in 70..84 -> 6
      [] mastery \in 50..69 -> 8
      [] OTHER -> 10

PolicyMastery(mastery, n, minutes) ==
    LET rawIncrease == PolicyBase(n) + PolicyBonus(minutes)
        scaled == (rawIncrease * PolicyTenths(mastery)) \div 10
        finalIncrease == IF scaled < 1 THEN 1 ELSE scaled
    IN  IF mastery + finalIncrease > 100 THEN 100 ELSE mastery + finalIncrease

C6_BaseIncreaseThirdToFifth ==
    (last.op = "recordSession" /\ last.ok) =>
        /\ ReviewedAfter.reviewCount = 3 => BaseIncrease(ReviewedAfter.reviewCount) = 15
        /\ ReviewedAfter.reviewCount = 4 => BaseIncrease(ReviewedAfter.reviewCount) = 14
        /\ ReviewedAfter.reviewCount = 5 => BaseIncrease(ReviewedAfter.reviewCount) = 12

\* --------------------------------------------------------------------- C10
\* C10: on one durable object at most one request is between its load and
\* its persist, and the persisted state holds the goal of every addGoal
\* that has completed successfully, each once: no update is lost.
C10_MutationsLinearized ==
    /\ Cardinality({r \in Requests : requests[r].pc = "loaded"}) <= 1
    /\ \A r \in Requests :
          (requests[r].pc = "done" /\ requests[r].ok) =>
              Cardinality({i \in 1..Len(After.goals) :
                  /\ After.goals[i].id = requests[r].goalId
                  /\ After.goals[i].title = requests[r].body[1].title[1]}) = 1
    /\ Len(After.goals) =
          Cardinality({r \in Requests : requests[r].pc = "done" /\ requests[r].ok})

\* two addGoal requests overlapped (one loaded the state while the other
\* was in flight) and both completed: both goals are stored
C10_Witness ==
    /\ \A r \in Requests : requests[r].pc = "done"
    /\ Cardinality({r \in Requests : requests[r].ok}) >= 2
    /\ \E r \in Requests : requests[r].ok /\ requests[r].overlapped
    /\ Len(After.goals) >= 2

\* --------------------------------------------------------------------- C11
\* C11: updateGoal on a stored goal succeeds and leaves every goal's id and
\* createdAt as stored, whatever the payload supplies; updateGoal on an
\* absent goalId fails with not-found and changes nothing; and no other
\* operation changes the id or createdAt of a goal that stays stored.
C11_IdAndCreatedAtKept ==
    /\ last.op = "updateGoal" =>
          IF last.goalId \in GoalIds(Before)
          THEN last.ok
          ELSE ~last.ok /\ last.error = "GoalNotFound" /\ After = Before
    /\ (last.op \notin {"init", "deleteGoal"}) =>
          /\ Len(After.goals) >= Len(Before.goals)
          /\ \A i \in 1..Len(Before.goals) :
                /\ After.goals[i].id = Before.goals[i].id
                /\ After.goals[i].createdAt = Before.goals[i].createdAt
    /\ last.op = "deleteGoal" =>
          \A h \in Goals(After) :
              \E g \in Goals(Before) : g.id = h.id /\ g.createdAt = h.createdAt

\* an update that supplied another id and createdAt (with a new status and
\* priority) was merged into a goal created at an earlier time
C11_Witness ==
    /\ last.op = "updateGoal" /\ last.ok
    /\ \E i \in 1..Len(Before.goals) :
          /\ Before.goals[i].id = last.goalId
          /\ Before.goals[i].status = "active"
          /\ After.goals[i].status = "completed"
          /\ After.goals[i].priority = 9
          /\ After.goals[i].id = last.goalId
          /\ After.goals[i].createdAt = Before.goals[i].createdAt
          /\ After.goals[i].createdAt < now

\* --------------------------------------------------------------------- C12
\* C12 as stated: no addGoal, addTopic, updateGoal, recordSession,
\* generateDailyPlan or deleteDailyPlan lowers the masteryLevel of a topic
\* that is stored before and after it.
C12_MasteryNeverDecreases ==
    (last.op \in {"addGoal", "addTopic", "updateGoal", "recordSession",
                  "generateDailyPlan", "deleteDailyPlan"}) =>
        \A t \in Topics(Before), u \in Topics(After) :
            (t.id = u.id /\ t.goalId = u.goalId) => u.masteryLevel >= t.masteryLevel

\* --------------------------------------------------------------------- C13
\* C13 as stated: updateGoal, recordSession, generateDailyPlan and
\* deleteDailyPlan leave every goal with the topics (by id, in order) it
\* had, and every stored topic carries the id of the one goal that holds it.
C13_TopicsChangeOnlyByTopicOperations ==
    /\ (last.op \in {"updateGoal", "recordSession", "generateDailyPlan",
                     "deleteDailyPlan"}) =>
          /\ Len(After.goals) = Len(Before.goals)
          /\ \A i \in 1..Len(Before.goals) :
                [j \in 1..Len(After.goals[i].topics) |-> After.goals[i].topics[j].id]
                    = [j \in 1..Len(Before.goals[i].topics) |->
                           Before.goals[i].topics[j].id]
    /\ \A i \in 1..Len(After.goals) :
          \A j \in 1..Len(After.goals[i].topics) :
              /\ After.goals[i].topics[j].goalId = After.goals[i].id
              /\ \A k \in 1..Len(After.goals) :
                    \A l \in 1..Len(After.goals[k].topics) :
                        After.goals[k].topics[l].id = After.goals[i].topics[j].id
                            => (k = i /\ l = j)

\* --------------------------------------------------------------------- C14
\* C14 as stated: a deleteGoal whose id equals no stored goal's id fails with
\* not-found and leaves the state as it was.
C14_DeleteGoalExactIdOnly ==
    (last.op = "deleteGoal" /\ last.goalId \notin GoalIds(Before)) =>
        /\ ~last.ok
        /\ last.error = "GoalNotFound"
        /\ After = Before

\* --------------------------------------------------------------------- C15
\* C15: a successful addGoal appends exactly one goal to the goals stored
\* before; its id is new, its status is "active" when the payload gives
\* none, and it has one topic per supplied entry, each with a new id of its
\* own, the new goal's id as goalId, no lastReviewed, reviewCount 0 and
\* masteryLevel 0; sessions and plans are what they were.
C15_AddGoalEffect ==
    (last.op = "addGoal" /\ last.ok) =>
        /\ Len(After.goals) = Len(Before.goals) + 1
        /\ SubSeq(After.goals, 1, Len(Before.goals)) = Before.goals
        /\ LET goal == After.goals[Len(After.goals)]
               used == GoalIds(Before) \cup TopicIds(Before)
           IN  /\ goal.id = last.goalId
               /\ goal.id \notin used
               /\ goal.title = last.goalData.title[1]
               /\ last.goalData.status = Null => goal.status = "active"
               /\ Len(goal.topics) = Len(last.goalData.topics)
               /\ \A j \in 1..Len(goal.topics) :
                     /\ goal.topics[j].id \notin used \cup {goal.id}
                     /\ \A k \in 1..Len(goal.topics) :
                           goal.topics[k].id = goal.topics[j].id => k = j
                     /\ goal.topics[j].goalId = goal.id
                     /\ goal.topics[j].name = last.goalData.topics[j].name[1]
                     /\ goal.topics[j].lastReviewed = Null
                     /\ goal.topics[j].reviewCount = 0
                     /\ goal.topics[j].masteryLevel = 0
        /\ After.sessions = Before.sessions
        /\ After.dailyPlans = Before.dailyPlans
        /\ After.lastPlanGenerated = Before.lastPlanGenerated

\* a goal with a topic was added to a state that held a goal, a session and
\* a plan with a task
C15_Witness ==
    /\ last.op = "addGoal" /\ last.ok
    /\ Len(last.goalData.topics) > 0
    /\ Len(Before.goals) > 0
    /\ Len(Before.sessions) > 0
    /\ \E p \in Plans(Before) : Len(p.tasks) > 0
    /\ Len(After.goals[Len(After.goals)].topics) = Len(last.goalData.topics)

\* --------------------------------------------------------------------- C16
\* C16 as stated: addGoal succeeds only with title, type, deadline and
\* priority present and the priority within 1..5, a failed addGoal leaves
\* the goals as they were, and no stored goal has a priority outside 1..5.
C16_PriorityAlwaysInRange ==
    /\ (last.op = "addGoal" /\ last.ok) =>
          /\ ~MissingRequired(last.goalData)
          /\ last.goalData.priority[1] \in 1..5
    /\ (last.op = "addGoal" /\ ~last.ok) =>
          /\ last.error = "MissingRequiredFields"
          /\ After.goals = Before.goals
    /\ \A g \in Goals(After) : g.priority \in 1..5

\* --------------------------------------------------------------------- C17
\* C17: addTopic on an absent goalId fails with not-found and changes
\* nothing; on a stored goal it appends exactly one topic, with a new id and
\* the given goalId, to that goal's topics, and leaves the goal's other
\* fields, every other goal, every session and every plan as they were.
C17_AddTopicEffect ==
    last.op = "addTopic" =>
        IF last.goalId \notin GoalIds(Before)
        THEN ~last.ok /\ last.error = "GoalNotFound" /\ After = Before
        ELSE /\ last.ok
             /\ Len(After.goals) = Len(Before.goals)
             /\ \A i \in 1..Len(Before.goals) :
                   IF Before.goals[i].id # last.goalId
                   THEN After.goals[i] = Before.goals[i]
                   ELSE LET old == Before.goals[i].topics
                            new == After.goals[i].topics
                        IN  /\ [After.goals[i] EXCEPT !.topics = old] = Before.goals[i]
                            /\ Len(new) = Len(old) + 1
                            /\ SubSeq(new, 1, Len(old)) = old
                            /\ new[Len(new)].goalId = last.goalId
                            /\ new[Len(new)].id \notin
                                   GoalIds(Before) \cup TopicIds(Before)
             /\ After.sessions = Before.sessions
             /\ After.dailyPlans = Before.dailyPlans
             /\ After.lastPlanGenerated = Before.lastPlanGenerated

\* a topic was added to a goal that had a topic already, with another goal,
\* a session and a plan stored
C17_Witness ==
    /\ last.op = "addTopic" /\ last.ok
    /\ \E g \in Goals(Before) : g.id = last.goalId /\ Len(g.topics) > 0
    /\ \E g \in Goals(After) : g.id = last.goalId /\ Len(g.topics) > 1
    /\ \E g \in Goals(After) : g.id # last.goalId
    /\ Len(After.sessions) > 0
    /\ Len(After.dailyPlans) > 0

\* --------------------------------------------------------------------- C18
\* the goal that holds a stored topic
GoalOf(state, topic) == CHOOSE g \in Goals(state) : g.id = topic.goalId

\* five times the combined urgency of a stored topic: decay weight x 100
\* plus the goal's urgency score
Combined(state, topic) ==
    100 * UrgencyMap(CalculateMemoryDecayLevel(topic.lastReviewed,
                                               topic.reviewCount, now))
    + GetUrgencyScore(GoalOf(state, topic).deadline, GoalOf(state, topic).priority, now)

\* the topics of active goals that were never reviewed or whose interval
\* has passed
DueOfActiveGoals(state) ==
    {t \in Topics(state) :
        /\ GoalOf(state, t).status = "active"
        /\ \/ t.lastReviewed = Null
           \/ now >= t.lastReviewed[1]
                       + SpacedRepetitionInterval(t.reviewCount) * TicksPerDay}

\* C18: getTopicsNeedingReview returns each due topic of an active goal
\* once and no other topic, ordered by combined urgency from highest to
\* lowest.
C18_ReviewQueue ==
    last.op = "getTopicsNeedingReview" =>
        /\ {last.result[i] : i \in 1..Len(last.result)} = DueOfActiveGoals(Before)
        /\ Len(last.result) = Cardinality(DueOfActiveGoals(Before))
        /\ \A i \in 1..Len(last.result) :
              /\ GoalOf(Before, last.result[i]).status
                     \notin {"completed", "archived"}
              /\ \A j \in 1..Len(last.result) :
                    i < j => Combined(Before, last.result[i])
                                 >= Combined(Before, last.result[j])

\* the queue put a topic of the second goal before a never reviewed topic of
\* the first, and left out a topic of the first goal that was not due yet
C18_Witness ==
    /\ last.op = "getTopicsNeedingReview"
    /\ Len(last.result) = 2
    /\ last.result[1].goalId # 1 /\ last.result[2].goalId = 1
    /\ Combined(Before, last.result[1]) > Combined(Before, last.result[2])
    /\ \E t \in Topics(Before) :
          /\ t.goalId = 1 /\ t.lastReviewed # Null
          /\ \A i \in 1..Len(last.result) : last.result[i] # t

\* --------------------------------------------------------------------- C19
\* C19 as stated: after getTopicsNeedingReview, getGoalsWithDecay or
\* getDailyPlan the persisted value for the key is the one persisted before
\* the call, the first access to the key included.
C19_QueriesLeaveStorageAlone ==
    (last.op \in {"getTopicsNeedingReview", "getGoalsWithDecay", "getDailyPlan"}) =>
        storage = prev

\* C19: getTopicsNeedingReview, getGoalsWithDecay and getDailyPlan leave a
\* persisted state exactly as it was; on the first access to a key, which
\* holds nothing, they persist the default empty state, which is the state
\* every method reads from an empty key.
C19_QueriesKeepState ==
    (last.op \in {"getTopicsNeedingReview", "getGoalsWithDecay", "getDailyPlan"}) =>
        /\ prev # <<>> => storage = prev
        /\ prev = <<>> => storage = <<DefaultState>>
        /\ After = Before

\* the review queue was asked for on a key that held nothing: it is empty,
\* and the key now holds the default state
C19_Witness ==
    /\ last.op = "getTopicsNeedingReview"
    /\ last.result = <<>>
    /\ prev = <<>>
    /\ storage = <<DefaultState>>

\* --------------------------------------------------------------------- C20
\* the decay weight of a stored topic, and the urgency score of its goal
DecayWeight(topic) ==
    UrgencyMap(CalculateMemoryDecayLevel(topic.lastReviewed, topic.reviewCount, now))

GoalUrgency(state, topic) ==
    GetUrgencyScore(GoalOf(state, topic).deadline, GoalOf(state, topic).priority, now)

\* C20: in the review queue of goals with priorities in 1..5, a due topic
\* of a strictly worse decay level stands before one of a better level
\* whatever the goals' deadlines and priorities, and the goal's urgency
\* score orders only topics of the same decay level.
C20_DecayDominates ==
    last.op = "getTopicsNeedingReview" =>
        \A i \in 1..Len(last.result), j \in 1..Len(last.result) :
            (/\ GoalOf(Before, last.result[i]).priority \in 1..5
             /\ GoalOf(Before, last.result[j]).priority \in 1..5) =>
                /\ DecayWeight(last.result[i]) > DecayWeight(last.result[j]) => i < j
                /\ (/\ DecayWeight(last.result[i]) = DecayWeight(last.result[j])
                    /\ GoalUrgency(Before, last.result[i])
                           > GoalUrgency(Before, last.result[j])) => i < j

\* a red topic of a goal with the lowest urgency score (priority 1, deadline
\* far away) was put before the orange topic of the first goal, whose
\* urgency score is the highest (priority 5, deadline passed)
C20_Witness ==
    /\ last.op = "getTopicsNeedingReview"
    /\ Len(last.result) = 2
    /\ last.result[1].goalId # 1 /\ last.result[2].goalId = 1
    /\ DecayWeight(last.result[1]) = 4 /\ DecayWeight(last.result[2]) = 3
    /\ GoalUrgency(Before, last.result[1]) = 20
    /\ GoalUrgency(Before, last.result[2]) = 100

\* ---------------------------------------------------------------------- C21
\* the time score the claim lists: 50 when overdue or at most 7 days away,
\* then 40, 30, 20, 10
ListedTimeScore(days) ==
    CASE days <= 7 -> 50
      [] days > 7 /\ days <= 14 -> 40
      [] days > 14 /\ days <= 30 -> 30
      [] days > 30 /\ days <= 60 -> 20
      [] days > 60 -> 10

\* C21: getUrgencyScore(deadline, priority) is an integer in [0,100] for
\* every priority 1..5 and every deadline; with the deadline fixed it never
\* falls as the priority rises, with the priority fixed it never rises as
\* the days until the deadline grow, and its time part is the listed score.
C21_UrgencyScoreRangeAndMonotone ==
    last.op = "getUrgencyScore" =>
        /\ last.result \in 0..100
        /\ last.result = Min(100, 10 * last.priority
                                  + ListedTimeScore(DaysBetween(now, last.deadline)))
        /\ \A priority \in RankingPriorities :
              priority >= last.priority =>
                  GetUrgencyScore(last.deadline, priority, now) >= last.result
        /\ \A deadline \in ScoringDeadlines :
              DaysBetween(now, deadline) >= DaysBetween(now, last.deadline) =>
                  GetUrgencyScore(deadline, last.priority, now) <= last.result

\* a goal of priority 3 due in 14 days scores 70, one day later it scores 60
C21_Witness ==
    /\ last.op = "getUrgencyScore"
    /\ last.priority = 3
    /\ DaysBetween(now, last.deadline) = 14
    /\ last.result = 70
    /\ GetUrgencyScore(last.deadline + TicksPerDay, 3, now) = 60

\* ---------------------------------------------------------------------- C22
\* the interval the claim lists: [1,3,7,14,30] at index reviewCount, 30 from
\* reviewCount 4 on
ListedInterval(reviewCount) ==
    CASE reviewCount = 0 -> 1
      [] reviewCount = 1 -> 3
      [] reviewCount = 2 -> 7
      [] reviewCount = 3 -> 14
      [] reviewCount >= 4 -> 30

\* the level the claim lists for whole days since review against interval x
\* 0.5, x 1 and x 1.5, compared in tenths
ListedLevel(days, interval) ==
    IF 10 * days < 5 * interval THEN "green"
    ELSE IF 10 * days < 10 * interval THEN "yellow"
    ELSE IF 10 * days < 15 * interval THEN "orange"
    ELSE "red"

\* C22: calculateMemoryDecayLevel returns red whenever lastReviewed is absent,
\* whatever the reviewCount; otherwise it returns the level of the whole
\* days since the review against the interval of the reviewCount.
C22_DecayLevelByInterval ==
    last.op = "calculateMemoryDecayLevel" =>
        IF last.lastReviewed = Null
        THEN last.result = "red"
        ELSE last.result =
                 ListedLevel((now - last.lastReviewed[1]) \div TicksPerDay,
                             ListedInterval(last.reviewCount))

\* a topic reviewed five times, 44 days ago, is orange; never reviewed it is red
C22_Witness ==
    /\ last.op = "calculateMemoryDecayLevel"
    /\ last.reviewCount = 5
    /\ last.lastReviewed # Null
    /\ DaysBetween(last.lastReviewed[1], now) = 44
    /\ last.result = "orange"
    /\ CalculateMemoryDecayLevel(Null, 5, now) = "red"

\* ---------------------------------------------------------------------- C23
\* the members of a list of topics
ListedTopics(topics) == {topics[i] : i \in 1..Len(topics)}

\* a stored topic is reported due by none of the three checks
DueNowhere(topic) ==
    /\ ~IsDueForReview(topic, now)
    /\ topic \notin ListedTopics(PlannerTopicsNeedingReview(After, now))
    /\ topic \notin ListedTopics(GetTopicsNeedingReviewOp(After, now))

\* a stored topic is reported due by all three checks
DueEverywhere(topic) ==
    /\ IsDueForReview(topic, now)
    /\ topic \in ListedTopics(PlannerTopicsNeedingReview(After, now))
    /\ topic \in ListedTopics(GetTopicsNeedingReviewOp(After, now))

\* the time from which the claim lets a reviewed topic be due again
IntervalElapsedAt(topic) ==
    topic.lastReviewed[1] + ListedInterval(topic.reviewCount) * TicksPerDay

NeedingReview(state) ==
    {topic \in Topics(state) :
        /\ \E g \in Goals(state) :
              g.status = "active" /\ topic \in ListedTopics(g.topics)
        /\ \/ topic.lastReviewed = Null
           \/ now >= IntervalElapsedAt(topic)}

\* a task of the model the planner can keep: its length and priority are in
\* range and its ids are ids of a topic and of a goal among the active goals
Keepable(task, state) ==
    /\ task.estimatedMinutes \in 15..180
    /\ task.priority \in 1..5
    /\ \E g \in Goals(state) : g.status = "active" /\ g.id = task.goalId
    /\ \E g \in Goals(state) :
          g.status = "active" /\ \E t \in ListedTopics(g.topics) : t.id = task.topicId

\* the model failed: every call threw or gave nothing the planner can keep
GenerationFailed(replies, state) ==
    \A k \in 1..Len(replies) :
        \/ replies[k].kind # "tasks"
        \/ \A task \in ListedTopics(replies[k].tasks) : ~Keepable(task, state)

\* a plan is the fallback plan of a state: one to four review tasks of 45
\* minutes, each for a topic needing review and the goal holding it
IsFallbackPlan(plan, state) ==
    /\ Len(plan.tasks) \in 1..4
    /\ \A task \in TasksOf(plan) :
          /\ task.type = "review"
          /\ task.estimatedMinutes = 45
          /\ \E topic \in NeedingReview(state) :
                /\ topic.id = task.topicId
                /\ \E g \in Goals(state) :
                      g.id = task.goalId /\ topic \in ListedTopics(g.topics)

C25_DeleteDailyPlanIdempotent ==
    last.op = "deleteDailyPlan" =>
        /\ last.ok
        /\ After.goals = Before.goals
        /\ After.sessions = Before.sessions
        /\ After.lastPlanGenerated = Before.lastPlanGenerated
        /\ After.dailyPlans =
               SelectSeq(Before.dailyPlans, LAMBDA p : p.date # last.date)
        /\ DeleteDailyPlanOp(After, last.date).ok
        /\ DeleteDailyPlanOp(After, last.date).st = After
        /\ storage = SetState(After)

\* a date without a plan is deleted while the plan of another date is
\* stored, and the call succeeds
C25_Witness ==
    /\ last.op = "deleteDailyPlan"
    /\ last.ok
    /\ \A p \in Plans(Before) : p.date # last.date
    /\ \E p \in Plans(After) : p.date # last.date /\ Len(p.tasks) > 0
    /\ Len(After.goals) > 0

\* ---------------------------------------------------------------------- C26
\* the state a user observes: what getState() of the user's object returns
Observed(stores, userId) == ObjectState(userId, stores[userId])

\* the outcome of the last operation had it run on a store holding nothing
\* but its own user's state
RunAlone ==
    LET own == Observed(prev, last.userId)
    IN  CASE last.op = "addGoal" ->
                AddGoalOp(own, last.goalData, last.goalId, now)
          [] last.op = "deleteGoal" -> DeleteGoalOp(own, last.goalId)
          [] last.op = "recordSession" ->
                RecordSessionOp(own, last.sessionData, last.id)
          [] last.op = "getTopicsNeedingReview" ->
                [ok |-> TRUE, error |-> "", st |-> own]

\* C26: user keys are independent. An operation invoked for one user key
\* leaves what every other key holds exactly as it was, and its own outcome
\* and result are the ones it has on that key's state alone, so what key A
\* observes does not depend on the operations run for key B.
C26_UserKeysIndependent ==
    last.op # "init" =>
        /\ \A other \in UserKeys \ {last.userId} : storage[other] = prev[other]
        /\ last.ok = RunAlone.ok
        /\ RunAlone.ok => Observed(storage, last.userId) = RunAlone.st
        /\ ~RunAlone.ok =>
               Observed(storage, last.userId) = Observed(prev, last.userId)
        /\ last.op = "getTopicsNeedingReview" =>
               last.result = GetTopicsNeedingReviewOp(Observed(prev, last.userId), now)
        /\ \A userId \in UserKeys : Observed(storage, userId).userId = userId

\* u2 deletes its goal while u1 holds a goal and a session: u1's state stays
C26_Witness ==
    /\ last.op = "deleteGoal"
    /\ last.ok
    /\ last.userId = "u2"
    /\ Len(Observed(prev, "u2").goals) = 1
    /\ Len(Observed(storage, "u2").goals) = 0
    /\ Len(Observed(storage, "u1").goals) = 1
    /\ Len(Observed(storage, "u1").sessions) = 1

\* ---------------------------------------------------------------------- C27
\* the ids a state holds: of its goals, its topics and its sessions
IdsIn(state) ==
    GoalIds(state) \cup TopicIds(state)
        \cup {state.sessions[i].id : i \in 1..Len(state.sessions)}

\* the places of the topics of a state: goal position and topic position
TopicPlaces(state) ==
    {<<i, j>> : i \in 1..Len(state.goals), j \in 1..(MaxId + MaxId)} \cap
    UNION {{<<i, j>> : j \in 1..Len(state.goals[i].topics)} :
               i \in 1..Len(state.goals)}

\* C27: ids are unique. In every reachable state no two goals share an id,
\* no two topics of any goals share an id and no two sessions share an id,
\* and every id that addGoal, addTopic and recordSession produce differs
\* from all ids the state held before.
C27_IdsUnique ==
    /\ \A i, j \in 1..Len(After.goals) :
          After.goals[i].id = After.goals[j].id => i = j
    /\ \A a, b \in TopicPlaces(After) :
          After.goals[a[1]].topics[a[2]].id = After.goals[b[1]].topics[b[2]].id
              => a = b
    /\ \A i, j \in 1..Len(After.sessions) :
          After.sessions[i].id = After.sessions[j].id => i = j
    /\ (last.op \in {"addGoal", "addTopic", "recordSession"} /\ last.ok) =>
          \A id \in IdsIn(After) \ IdsIn(Before) : id \notin IdsIn(Before)
    /\ (last.op = "addGoal" /\ last.ok) => last.goalId \notin IdsIn(Before)
    /\ (last.op = "recordSession" /\ last.ok) => last.id \notin IdsIn(Before)
    /\ (last.op = "addTopic" /\ last.ok) =>
          \E g \in Goals(After) :
              /\ g.id = last.goalId
              /\ g.topics[Len(g.topics)].id \notin IdsIn(Before)

\* ---------------------------------------------------------------------- C28
\* C28: a stored session is immutable and leaves the state only when its
\* goal is deleted. After any operation but a successful deleteGoal the
\* sessions stored before are all there, in place, with every field as it
\* was; after a successful deleteGoal exactly the sessions of the goals that
\* remain are kept, unchanged and in order.
C28_SessionsImmutable ==
    IF last.op = "deleteGoal" /\ last.ok
    THEN After.sessions =
             SelectSeq(Before.sessions,
                       LAMBDA s : s.goalId \notin (GoalIds(Before) \ GoalIds(After)))
    ELSE /\ Len(After.sessions) >= Len(Before.sessions)
         /\ SubSeq(After.sessions, 1, Len(Before.sessions)) = Before.sessions

\* one of two goals is deleted and the session of the other goal stays
C28_Witness ==
    /\ last.op = "deleteGoal"
    /\ last.ok
    /\ Len(Before.goals) = 2
    /\ Len(Before.sessions) = 1
    /\ After.sessions = Before.sessions

\* ---------------------------------------------------------------------- C29
\* C29: in every reachable state every topic has a reviewCount of zero or
\* more and a masteryLevel within 0..100, and every topic that addGoal or
\* addTopic creates starts with reviewCount 0 and masteryLevel 0.
C29_TopicCountersInRange ==
    /\ \A topic \in Topics(After) :
          /\ topic.reviewCount \in Nat
          /\ topic.masteryLevel \in 0..100
    /\ (last.op = "addGoal" /\ last.ok) =>
          \A g \in Goals(After) :
              g.id = last.goalId =>
                  \A topic \in ListedTopics(g.topics) :
                      topic.reviewCount = 0 /\ topic.masteryLevel = 0
    /\ (last.op = "addTopic" /\ last.ok) =>
          \A g \in Goals(After) :
              g.id = last.goalId =>
                  /\ g.topics[Len(g.topics)].reviewCount = 0
                  /\ g.topics[Len(g.topics)].masteryLevel = 0

\* ---------------------------------------------------------------------- C30
\* the last n entries of a sequence
LastEntries(entries, n) ==
    [i \in 1..(IF Len(entries) < n THEN Len(entries) ELSE n) |->
        entries[i + (IF Len(entries) < n THEN 0 ELSE Len(entries) - n)]]

UsableCalls(replies, state) ==
    {k \in 1..Len(replies) :
        /\ replies[k].kind = "tasks"
        /\ \E task \in ListedTopics(replies[k].tasks) : Keepable(task, state)}

\* the replies with every throw turned into a reply without a tasks array
ThrowsAsText(replies) ==
    [k \in 1..Len(replies) |->
        IF replies[k].kind = "throws" THEN [replies[k] EXCEPT !.kind = "text"]
        ELSE replies[k]]

\* what the planner returned in the plan generation last finished or still
\* under way: the snapshot it ran on, the replies, the calls made, the plan
PlannerRuns ==
    (IF last.op = "generatePlan" /\ last.snapshot # Null
     THEN {[snapshot |-> last.snapshot[1], replies |-> last.replies,
            attempts |-> last.attempts, plan |-> last.plan, error |-> last.error,
            date |-> last.date]}
     ELSE {})
    \cup
    {[snapshot |-> requests[r].state[1], replies |-> requests[r].body[1].replies,
      attempts |-> requests[r].body[1].attempts,
      plan |-> Some(requests[r].body[1].plan), error |-> "",
      date |-> requests[r].body[1].plan.date] :
        r \in {q \in Requests : requests[q].pc = "planned"}}

\* C31: a plan generation calls the model at most 3 times; with an active
\* goal the number of calls is the position of the first reply holding a
\* valid task, or 3 when no reply holds one, so no call follows the first
\* usable reply; a call that throws counts like one with unusable output
\* (the outcome is the same with the throws replaced by unusable text); and
\* the planner ends with a plan of at least one task or with an error.
C31_AtMostThreeCalls ==
    \A run \in PlannerRuns :
        LET usable == UsableCalls(run.replies, run.snapshot)
            asText == PlannerGenerateDailyPlan(run.snapshot, run.date,
                                               ThrowsAsText(run.replies), now)
        IN  /\ run.attempts <= 3
            /\ run.attempts =
                   IF \A g \in Goals(run.snapshot) : g.status # "active" THEN 0
                   ELSE IF usable = {} THEN 3
                   ELSE First(usable)
            /\ asText.attempts = run.attempts
            /\ asText.plan # Null /\ run.plan # Null =>
                   asText.plan[1].tasks = run.plan[1].tasks
            /\ (asText.plan = Null) = (run.plan = Null)
            /\ \/ run.plan # Null /\ Len(run.plan[1].tasks) >= 1
               \/ run.plan = Null /\ run.error \in {"NoActiveGoals", "NoValidTopics"}

\* the first call throws, the second yields a valid task and the third
\* would have too: two calls are made and the plan holds the model's task
C31_Witness ==
    /\ last.op = "generatePlan"
    /\ last.ok
    /\ last.attempts = 2
    /\ last.replies[1].kind = "throws"
    /\ UsableCalls(last.replies, last.snapshot[1]) = {2, 3}
    /\ \E task \in TasksOf(last.plan[1]) : task.type = "study"

\* ---------------------------------------------------------------------- C32
\* C32: a plan the planner returns for a snapshot is accepted by the store's
\* generateDailyPlan when the state is still the snapshot: the request
\* succeeds, and every task of the plan names a goal of the state and a
\* topic of that goal.
C32_PlannerPlanAcceptedByStore ==
    (/\ last.op = "generatePlan"
     /\ last.plan # Null
     /\ last.snapshot = Some(Before))
        => /\ last.ok
           /\ \A task \in TasksOf(last.plan[1]) :
                 Resolves(Before, task.goalId, task.topicId)

\* ---------------------------------------------------------------------- C33
\* C33: in every state reached by addGoal, addTopic, updateGoal,
\* recordSession, deleteGoal, generateDailyPlan and deleteDailyPlan, every
\* topic's goalId is the id of the goal holding it, and every stored session
\* and every task of every stored plan names a goal of the state and a topic
\* among that goal's topics.
C33_ReferentialIntegrity ==
    /\ \A g \in Goals(After) : \A t \in ListedTopics(g.topics) : t.goalId = g.id
    /\ \A s \in Sessions(After) : Resolves(After, s.goalId, s.topicId)
    /\ \A plan \in Plans(After) : \A task \in TasksOf(plan) :
          Resolves(After, task.goalId, task.topicId)

\* ---------------------------------------------------------------------- C34
\* the number of stored sessions recorded on a topic of a goal
SessionsOn(state, goalId, topicId) ==
    Cardinality({i \in 1..Len(state.sessions) :
                    /\ state.sessions[i].goalId = goalId
                    /\ state.sessions[i].topicId = topicId})

\* C34: with topics created at reviewCount 0, in every state reached by
\* addGoal, recordSession, deleteGoal, generateDailyPlan and deleteDailyPlan
\* each topic's reviewCount is the number of stored sessions naming the topic
\* and its goal, and lastReviewed is absent exactly when that number is 0.
C34_ReviewCountIsSessionCount ==
    \A g \in Goals(After) : \A t \in ListedTopics(g.topics) :
        /\ t.reviewCount = SessionsOn(After, g.id, t.id)
        /\ (t.lastReviewed = Null) = (SessionsOn(After, g.id, t.id) = 0)

\* two goals: the topic of one has two sessions and was reviewed, the topic
\* of the other has none
C34_Witness ==
    /\ last.op = "recordSession"
    /\ last.ok
    /\ \E t \in Topics(After) :
          /\ t.reviewCount = 2
          /\ SessionsOn(After, t.goalId, t.id) = 2
          /\ t.lastReviewed # Null
    /\ \E t \in Topics(After) : t.reviewCount = 0 /\ t.lastReviewed = Null

\* ---------------------------------------------------------------------- C35
\* the tasks of the stored plans of a state whose goal is not in the state
\* any more
OrphanTasks(state) ==
    {task \in UNION {TasksOf(plan) : plan \in Plans(state)} :
        task.goalId \notin GoalIds(state)}

\* C35: when a plan generation (snapshot, planner, store) interleaves with
\* deleteGoal requests of the same user, no stored plan ever holds a task
\* whose goal is not in state.goals. A plan with a task of a goal deleted
\* since the snapshot is rejected when it is sent to the store, which then
\* keeps the state as it was; and a deleteGoal that follows the store leaves
\* no task of the deleted goal in any plan.
C35_NoStoredTaskOfDeletedGoal ==
    /\ OrphanTasks(After) = {}
    /\ (/\ last.op = "generatePlan"
        /\ last.plan # Null
        /\ \E task \in TasksOf(last.plan[1]) : task.goalId \notin GoalIds(Before))
           => ~last.ok /\ After = Before
    /\ (last.op = "deleteGoal" /\ last.ok) =>
           \A plan \in Plans(After) : \A task \in TasksOf(plan) :
               task.goalId # last.goalId

\* the goal of a planned task was deleted between the snapshot and the
\* store: the store rejects the plan and no plan is stored
C35_Witness ==
    /\ last.op = "generatePlan"
    /\ ~last.ok
    /\ last.error = "GoalNotFound"
    /\ last.snapshot # Null
    /\ last.snapshot # Some(Before)
    /\ \E task \in TasksOf(last.plan[1]) :
          /\ task.goalId \in GoalIds(last.snapshot[1])
          /\ task.goalId \notin GoalIds(Before)
    /\ Plans(After) = {}

\* ---------------------------------------------------------------------- C36
\* C36: when chat requests of one user overlapped (one loaded the stored
\* turns while another was waiting for the model) and all of them have
\* completed, the stored turns hold every completed exchange (as long as
\* the exchanges fit in the window).
C36_OverlappingExchangesKept ==
    (/\ last.overlapped
     /\ \A r \in Requests : requests[r].pc = "idle"
     /\ Len(last.history) <= MaxTurns)
        => \A i \in 1..Len(last.history) :
              \E j \in 1..Len(StoredTurns(storage)) :
                  StoredTurns(storage)[j] = last.history[i]

\* ---------------------------------------------------------------------- C37
\* the stored topics, each also with every other reviewCount up to MaxCount
TopicsAtAnyCount ==
    {[topic EXCEPT !.reviewCount = reviewCount] :
        topic \in Topics(After), reviewCount \in 0..MaxCount}

\* the decay level of a topic now
LevelNow(topic) ==
    CalculateMemoryDecayLevel(topic.lastReviewed, topic.reviewCount, now)

\* C37: a topic with lastReviewed present is due for review (by the review
\* queue's test, by the planner's filter and by the page's isDueForReview)
\* exactly when calculateMemoryDecayLevel gives orange or red; no green or
\* yellow topic is due, and every topic the review queue or the planner's
\* list returns has decay weight 3 or 4 (a topic never reviewed is red).
C37_DueIffOrangeOrRed ==
    /\ \A topic \in TopicsAtAnyCount :
          topic.lastReviewed # Null =>
              /\ IsTopicDueForReview(topic.lastReviewed, topic.reviewCount, now)
                     = (LevelNow(topic) \in {"orange", "red"})
              /\ PlannerNeedsReview(topic, now)
                     = (LevelNow(topic) \in {"orange", "red"})
              /\ IsDueForReview(topic, now)
                     = (LevelNow(topic) \in {"orange", "red"})
    /\ \A topic \in Topics(After) :
          topic.lastReviewed = Null => LevelNow(topic) = "red"
    /\ last.op \in {"getTopicsNeedingReview", "topicsNeedingReview"} =>
          \A topic \in ListedTopics(last.result) :
              /\ DecayWeight(topic) \in {3, 4}
              /\ topic.lastReviewed = Null => DecayWeight(topic) = 4
    /\ (last.op = "isDueForReview" /\ last.result) =>
          DecayWeight(last.topic) \in {3, 4}

\* the review queue is asked exactly three days after the topic's first
\* session: the topic has just turned orange and is returned
C37_Witness ==
    /\ last.op = "getTopicsNeedingReview"
    /\ Len(last.result) = 1
    /\ last.result[1].reviewCount = 1
    /\ last.result[1].lastReviewed # Null
    /\ now = last.result[1].lastReviewed[1] + 3 * TicksPerDay
    /\ LevelNow(last.result[1]) = "orange"
    /\ DecayWeight(last.result[1]) = 3

\* ---------------------------------------------------------------------- C38
\* C38: the result of getTopicsNeedingReview(asOfDate) does not depend on
\* asOfDate: on the same stored state at the same time the call returns,
\* for every other asOfDate and for none, the same topics in the same
\* order, which is the queue as evaluated at the current time.
C38_AsOfDateIgnored ==
    last.op = "review" =>
        /\ \A asOfDate \in AsOfDates :
              GetTopicsNeedingReviewAsOf(Before, asOfDate, now) = last.result
        /\ last.result = GetTopicsNeedingReviewOp(Before, now)

\* the queue is asked as of a date at which it would have held other topics
\* or another order, and returns today's queue of two or more topics
C38_Witness ==
    /\ last.op = "review"
    /\ last.asOfDate # Null
    /\ Len(last.result) >= 2
    /\ GetTopicsNeedingReviewOp(Before, last.asOfDate[1]) # last.result
    /\ Len(GetTopicsNeedingReviewOp(Before, last.asOfDate[1])) >= 2

====
